---------------------------- MODULE Spec2Model ----------------------------
(***************************************************************************)
(* A model of the movie-frontend client: the HTTP client wrapper (the two  *)
(* api definitions kept in the repository, with the base URL each gives to *)
(* axios), the Home page controller with its SearchBar, the MovieDetails   *)
(* and Dashboard page controllers, the MovieSlider, the MovieCard and the  *)
(* Login form.                                                             *)
(*                                                                         *)
(* React state is modelled at the granularity of a handler: a handler up   *)
(* to its first await is one action, and the continuation that runs when   *)
(* the awaited call settles (try / catch / finally) is another action.     *)
(* Rendering is a function of the state, so a control is clickable exactly *)
(* when the JSX condition that renders and enables it holds.               *)
(***************************************************************************)
EXTENDS Integers, Sequences, FiniteSets, TLC

VARIABLES
    apiDef,        \* which api definition the bundle contains (1 or 2)
    localStorage,  \* persisted entries 'token' and 'user'
    location,      \* window.location path
    calls,         \* facade calls issued through the wrapper, by position
    home,          \* Home component state (useState cells)
    searchBar,     \* SearchBar component state (query)
    homeFlight,    \* Home calls awaiting their response
    details,       \* MovieDetails component state
    auth,          \* AuthContext value read through useAuth()
    detFlight,     \* MovieDetails calls awaiting their response
    issued,        \* number of network calls issued by the page controllers, by kind
    dashboard,     \* Dashboard component state
    dashFlight,    \* Dashboard calls awaiting their response or their continuation
    slider,        \* MovieSlider component state and its interval timers
    display,       \* one movie as a component rendered it: texts and poster
    config,        \* build-time environment and the baseURL given to axios
    focus,         \* the component whose events a run follows (SpecPages)
    login,         \* Login component state, with the AuthContext's login calls
    last           \* the handler step that ran last, with its inputs

\* the state that no step of the wrapper, Home or MovieDetails changes
otherViews == <<dashboard, dashFlight, slider, display, config, focus, login>>

vars == <<apiDef, localStorage, location, calls, home, searchBar, homeFlight,
          details, auth, detFlight, issued, otherViews, last>>

-----------------------------------------------------------------------------
(* Bounds *)

MaxCalls == 2        \* facade calls issued through the wrapper in one run
MaxHomeCalls == 3    \* network calls issued by Home in one run
MaxDetCalls == 3     \* network calls issued by MovieDetails in one run
MaxPage == 3         \* largest page number / total_pages the backend reports

-----------------------------------------------------------------------------
(* JavaScript values *)

Null == "null"       \* null / undefined / absent property

\* a non-empty string is truthy, null and '' are falsy
TruthyStr(s) == s /= Null /\ s /= ""

-----------------------------------------------------------------------------
(* HTTP client wrapper: src/movie-frontend/README.md 122-243 *)

Tokens == {"t1", "t2"}
Users == {"u1"}
Routes == {"/", "/login"}
Endpoints == {"movies/", "movies/watchlist/"}
\* 0 stands for a transport failure: the error carries no response
Statuses == {200, 401, 404, 0}

IsSuccess(status) == status >= 200 /\ status < 300

Bearer(token) == "Bearer " \o token

\* api.interceptors.request.use: the config handed to the adapter
RequestInterceptorStale(storage) ==
    [Authorization |-> IF TruthyStr(storage.token) THEN Bearer("t1") ELSE Null]

RequestInterceptor(storage) ==
    [Authorization |-> IF TruthyStr(storage.token) THEN Bearer(storage.token)
                       ELSE Null]

\* does this api definition install the response interceptor
HasResponseInterceptor(def) == def = 1

\* api.interceptors.response.use, error handler: effect on storage/location
OnResponseError(def, status, storage, loc) ==
    IF HasResponseInterceptor(def) /\ status = 401
    THEN [storage |-> [token |-> Null, user |-> Null], location |-> "/login",
          reload |-> TRUE]
    ELSE [storage |-> storage, location |-> loc, reload |-> FALSE]

\* what the caller's promise settles to; the adapter sends once
SettleSwallow401(status) ==
    IF IsSuccess(status) \/ status = 401
    THEN [state |-> "resolved", error |-> Null]
    ELSE [state |-> "rejected", error |-> ToString(status)]

Settle(status) ==
    IF IsSuccess(status)
    THEN [state |-> "resolved", error |-> Null]
    ELSE [state |-> "rejected", error |-> ToString(status)]

\* authAPI / moviesAPI / userAPI: one api.get / api.post / api.delete per call
FacadeCall(endpoint) ==
    /\ Len(calls) < MaxCalls
    /\ calls' = Append(calls,
                  [endpoint |-> endpoint,
                   headers |-> RequestInterceptor(localStorage),
                   tokenAtSend |-> localStorage.token,
                   sent |-> 1, state |-> "pending", status |-> -1,
                   error |-> Null])
    /\ last' = [op |-> "FacadeCall"]
    /\ UNCHANGED <<otherViews, apiDef, localStorage, location, home,
                   searchBar, homeFlight, details, auth, detFlight, issued>>

\* the response to call i arrives with the given status
Respond(i, status) ==
    /\ i \in 1..Len(calls)
    /\ calls[i].state = "pending"
    /\ LET eff == IF IsSuccess(status)
                  THEN [storage |-> localStorage, location |-> location,
                        reload |-> FALSE]
                  ELSE OnResponseError(apiDef, status, localStorage, location)
           out == Settle(status)
       IN /\ localStorage' = eff.storage
          /\ location' = eff.location
          \* assigning window.location.href loads a new document: the calls
          \* of the old document never settle
          /\ calls' = [j \in 1..Len(calls) |->
                         IF j = i
                         THEN [calls[j] EXCEPT !.state = out.state,
                                               !.status = status,
                                               !.error = out.error]
                         ELSE IF eff.reload /\ calls[j].state = "pending"
                              THEN [calls[j] EXCEPT !.state = "aborted"]
                              ELSE calls[j]]
          \* the new document finds no token and starts unauthenticated
          /\ auth' = IF eff.reload THEN [isAuthenticated |-> FALSE] ELSE auth
    /\ last' = [op |-> "Respond"]
    /\ UNCHANGED <<otherViews, apiDef, home, searchBar, homeFlight, details,
                   detFlight, issued>>

\* AuthContext persists the session on login
StoreSession(t, u) ==
    /\ localStorage' = [token |-> t, user |-> u]
    /\ auth' = [isAuthenticated |-> TRUE]
    /\ last' = [op |-> "StoreSession"]
    /\ UNCHANGED <<otherViews, apiDef, location, calls, home, searchBar,
                   homeFlight, details, detFlight, issued>>

\* AuthContext clears the session on logout
ClearSession ==
    /\ localStorage.token /= Null
    /\ localStorage' = [token |-> Null, user |-> Null]
    /\ auth' = [isAuthenticated |-> FALSE]
    /\ last' = [op |-> "ClearSession"]
    /\ UNCHANGED <<otherViews, apiDef, location, calls, home, searchBar,
                   homeFlight, details, detFlight, issued>>

\* client-side route change
Navigate(p) ==
    /\ p /= location
    /\ location' = p
    /\ last' = [op |-> "Navigate"]
    /\ UNCHANGED <<otherViews, apiDef, localStorage, calls, home, searchBar,
                   homeFlight, details, auth, detFlight, issued>>

-----------------------------------------------------------------------------
(* Response bodies seen by the page controllers *)

NoCount == -1        \* the body has no 'count' property
PageSize == 12       \* page_size sent by fetchMovies and used by Math.ceil

NoPageInfo == [total_pages |-> 0, has_next |-> FALSE, has_previous |-> FALSE]

\* a bare JSON array
Arr(s) ==
    [isArray |-> TRUE, items |-> s, hasResults |-> FALSE, results |-> <<>>,
     count |-> NoCount, next |-> Null, previous |-> Null,
     hasPageInfo |-> FALSE, page_info |-> NoPageInfo]

\* a JSON object with the listed properties
Obj(hasResults, results, count, next, previous, hasPageInfo, page_info) ==
    [isArray |-> FALSE, items |-> <<>>, hasResults |-> hasResults,
     results |-> results, count |-> count, next |-> next,
     previous |-> previous, hasPageInfo |-> hasPageInfo,
     page_info |-> page_info]

\* a value held in the movies / searchResults cells: an array of movies, or
\* a body that is not an array (only its missing .length is ever read)
List(s) == [isArray |-> TRUE, items |-> s]
NotAList == [isArray |-> FALSE, items |-> <<>>]

\* x.length as compared by `x.length > 0`: undefined compares false
Length(x) == IF x.isArray THEN Len(x.items) ELSE -1

\* data.results || data
ResultsOrData(data) ==
    IF data.hasResults THEN List(data.results)
    ELSE IF data.isArray THEN List(data.items)
    ELSE NotAList

\* Math.ceil(n / d) for a non-negative n
CeilDiv(n, d) == (n + d - 1) \div d

\* Math.ceil(data.count / 12)
TotalPagesFromCountFloor(count) == count \div PageSize

TotalPagesFromCount(count) == CeilDiv(count, PageSize)

\* the bodies a backend configuration may answer getMovies(page) with
BrowseBodies(page) ==
    \* a raw sequence
    {Arr(<<>>), Arr(<<page>>)}
    \* the explicit pagination envelope: beside DRF fields that disagree with
    \* it, disagreeing with itself (has_next on the only page), and alone
    \cup {Obj(TRUE, <<page>>, 25, "url", "url", TRUE,
              [total_pages |-> 1, has_next |-> FALSE, has_previous |-> FALSE]),
          Obj(TRUE, <<page>>, NoCount, Null, Null, TRUE,
              [total_pages |-> 1, has_next |-> TRUE, has_previous |-> FALSE]),
          Obj(TRUE, <<page>>, NoCount, Null, Null, TRUE,
              [total_pages |-> MaxPage, has_next |-> TRUE,
               has_previous |-> TRUE])}
    \* the standard DRF envelope
    \cup {Obj(TRUE, c[1], c[2], c[3], c[4], FALSE, NoPageInfo) :
            c \in {<<(<<>>), 0, Null, Null>>,
                   <<(<<page>>), 12, Null, Null>>,
                   <<(<<page>>), 13, "url", Null>>}}
    \* next / previous links only
    \cup {Obj(TRUE, <<page>>, NoCount, c[1], c[2], FALSE, NoPageInfo) :
            c \in {<<"url", Null>>, <<"url", "url">>}}
    \* an object without a results list
    \cup {Obj(FALSE, <<>>, 13, "url", Null, FALSE, NoPageInfo)}

\* movie ids a search for the query returns
Hit(query) == IF query = "a" THEN 101 ELSE 102

\* the bodies searchMovies(query) may resolve with
SearchBodies(query) ==
    {Arr(<<>>), Arr(<<Hit(query)>>),
     Obj(TRUE, <<Hit(query)>>, 1, Null, Null, FALSE, NoPageInfo)}

-----------------------------------------------------------------------------
(* SearchBar: src/unnamed/part_001 1-76 *)

\* what the user can have typed into the input
Texts == {"", " ", "a", " b"}

\* String.prototype.trim on the texts above
Trim(text) ==
    CASE text = " "  -> ""
      [] text = " b" -> "b"
      [] OTHER       -> text

\* handleSubmit: the query handed to onSearch, or Null when onSearch is not
\* called
SubmittedQuery(text) ==
    IF Trim(text) /= "" THEN Trim(text) ELSE Null

\* the clear button is rendered when `query` is truthy
ClearButtonRendered == searchBar.query /= ""

-----------------------------------------------------------------------------
(* Home: src/movie-frontend/src/pages/Home.js *)

\* const displayMovies = searchQuery ? searchResults : movies
DisplayMovies(h) ==
    IF h.searchQuery /= "" THEN h.searchResults ELSE h.movies

\* the JSX condition of the pagination controls
PaginationRendered(h) ==
    /\ h.searchQuery = ""
    /\ Length(h.movies) > 0
    /\ (h.totalPages > 1 \/ h.hasNext \/ h.hasPrevious)

\* fetchMovies, try block after the await and the finally block
FetchMoviesSuccessCountFirst(h, page, data) ==
    [h EXCEPT
       !.movies = ResultsOrData(data),
       !.currentPage = page,
       !.totalPages = IF data.count > 0 /\ data.hasResults
                      THEN TotalPagesFromCount(data.count)
                      ELSE IF data.hasPageInfo THEN data.page_info.total_pages
                      ELSE @,
       !.hasNext = IF data.hasPageInfo THEN data.page_info.has_next
                   ELSE TruthyStr(data.next),
       !.hasPrevious = IF data.hasPageInfo THEN data.page_info.has_previous
                       ELSE TruthyStr(data.previous),
       !.loading = FALSE]

FetchMoviesSuccess(h, page, data) ==
    [h EXCEPT
       !.movies = ResultsOrData(data),
       !.currentPage = page,
       !.totalPages = IF data.hasPageInfo THEN data.page_info.total_pages
                      ELSE IF data.count /= NoCount /\ data.count /= 0
                              /\ data.hasResults
                           THEN TotalPagesFromCount(data.count)
                           ELSE @,
       !.hasNext = IF data.hasPageInfo THEN data.page_info.has_next
                   ELSE TruthyStr(data.next),
       !.hasPrevious = IF data.hasPageInfo THEN data.page_info.has_previous
                       ELSE TruthyStr(data.previous),
       !.loading = FALSE]

FetchMoviesFailureResets(h) ==
    [h EXCEPT !.error = "Failed to fetch movies", !.loading = FALSE,
              !.movies = List(<<>>), !.currentPage = 1]

\* fetchMovies, catch and finally blocks
FetchMoviesFailure(h) ==
    [h EXCEPT !.error = "Failed to fetch movies", !.loading = FALSE]

PageChangeFetchesAny(h, page) == TRUE

\* handlePageChange: does it call fetchMovies(page)
PageChangeFetches(h, page) == page >= 1 /\ page <= h.totalPages

HomeCalls == issued.browse + issued.search

\* fetchMovies up to the await
FetchMoviesStart(page) ==
    /\ HomeCalls < MaxHomeCalls
    /\ home' = [home EXCEPT !.loading = TRUE]
    /\ homeFlight' = homeFlight \cup
                       {[id |-> HomeCalls + 1, kind |-> "browse",
                         page |-> page, query |-> ""]}
    /\ issued' = [issued EXCEPT !.browse = @ + 1]

\* handlePageChange(page), reached from the Previous / Next handlers
HandlePageChange(page) ==
    IF PageChangeFetches(home, page)
    THEN FetchMoviesStart(page)
    ELSE UNCHANGED <<home, homeFlight, issued>>

\* the Previous button: rendered with the controls, disabled={!hasPrevious}
ClickPrevious ==
    /\ PaginationRendered(home)
    /\ home.hasPrevious
    /\ HandlePageChange(home.currentPage - 1)
    /\ last' = [op |-> "handlePreviousPage", page |-> home.currentPage - 1]
    /\ UNCHANGED <<otherViews, apiDef, localStorage, location, calls,
                   searchBar, details, auth, detFlight>>

\* the Next button: rendered with the controls, disabled={!hasNext}
ClickNext ==
    /\ PaginationRendered(home)
    /\ home.hasNext
    /\ HandlePageChange(home.currentPage + 1)
    /\ last' = [op |-> "handleNextPage", page |-> home.currentPage + 1]
    /\ UNCHANGED <<otherViews, apiDef, localStorage, location, calls,
                   searchBar, details, auth, detFlight>>

\* getMovies resolves with a body; nothing compares the request with the
\* latest one issued
BrowseResolveLatestOnly(f, data) ==
    /\ f \in homeFlight
    /\ f.kind = "browse"
    /\ home' = IF f.id = HomeCalls THEN FetchMoviesSuccess(home, f.page, data)
               ELSE [home EXCEPT !.loading = FALSE]
    /\ homeFlight' = homeFlight \ {f}
    /\ last' = [op |-> "fetchMoviesOk", page |-> f.page, data |-> data]
    /\ UNCHANGED <<otherViews, apiDef, localStorage, location, calls,
                   searchBar, details, auth, detFlight, issued>>

BrowseResolve(f, data) ==
    /\ f \in homeFlight
    /\ f.kind = "browse"
    /\ home' = FetchMoviesSuccess(home, f.page, data)
    /\ homeFlight' = homeFlight \ {f}
    /\ last' = [op |-> "fetchMoviesOk", page |-> f.page, data |-> data]
    /\ UNCHANGED <<otherViews, apiDef, localStorage, location, calls,
                   searchBar, details, auth, detFlight, issued>>

\* getMovies rejects
BrowseReject(f) ==
    /\ f \in homeFlight
    /\ f.kind = "browse"
    /\ home' = FetchMoviesFailure(home)
    /\ homeFlight' = homeFlight \ {f}
    /\ last' = [op |-> "fetchMoviesFail", page |-> f.page]
    /\ UNCHANGED <<otherViews, apiDef, localStorage, location, calls,
                   searchBar, details, auth, detFlight, issued>>

\* handleSearch('') : the early return
HandleSearchEmptyKeepsQuery(h) ==
    [h EXCEPT !.searchResults = List(<<>>)]

HandleSearchEmpty(h) ==
    [h EXCEPT !.searchResults = List(<<>>), !.searchQuery = ""]

\* handleSearch(query) for a truthy query, up to the await
HandleSearchStart(h, query) ==
    [h EXCEPT !.searching = TRUE, !.searchQuery = query]

\* handleSearch, try block after the await and the finally block
HandleSearchSuccess(h, data) ==
    [h EXCEPT !.searchResults = ResultsOrData(data), !.searching = FALSE]

\* handleSearch, catch and finally blocks
HandleSearchFailure(h) ==
    [h EXCEPT !.error = "Search failed", !.searching = FALSE]

\* Home.handleSearch(query) as called through onSearch
HandleSearch(query) ==
    IF query = ""
    THEN /\ home' = HandleSearchEmpty(home)
         /\ UNCHANGED <<homeFlight, issued>>
    ELSE /\ HomeCalls < MaxHomeCalls
         /\ home' = HandleSearchStart(home, query)
         /\ homeFlight' = homeFlight \cup
                            {[id |-> HomeCalls + 1, kind |-> "search",
                              page |-> 0, query |-> query]}
         /\ issued' = [issued EXCEPT !.search = @ + 1]

\* SearchBar.handleChange
Type(text) ==
    /\ text /= searchBar.query
    /\ searchBar' = [searchBar EXCEPT !.query = text]
    /\ last' = [op |-> "handleChange"]
    /\ UNCHANGED <<otherViews, apiDef, localStorage, location, calls, home,
                   homeFlight, details, auth, detFlight, issued>>

\* SearchBar.handleSubmit
Submit ==
    /\ IF SubmittedQuery(searchBar.query) /= Null
       THEN HandleSearch(SubmittedQuery(searchBar.query))
       ELSE UNCHANGED <<home, homeFlight, issued>>
    /\ last' = [op |-> "handleSubmit", text |-> searchBar.query]
    /\ UNCHANGED <<otherViews, apiDef, localStorage, location, calls,
                   searchBar, details, auth, detFlight>>

\* SearchBar.handleClear
ClickClear ==
    /\ ClearButtonRendered
    /\ searchBar' = [searchBar EXCEPT !.query = ""]
    /\ HandleSearch("")
    /\ last' = [op |-> "handleClear"]
    /\ UNCHANGED <<otherViews, apiDef, localStorage, location, calls,
                   details, auth, detFlight>>

\* searchMovies resolves with a body
SearchResolve(f, data) ==
    /\ f \in homeFlight
    /\ f.kind = "search"
    /\ home' = HandleSearchSuccess(home, data)
    /\ homeFlight' = homeFlight \ {f}
    /\ last' = [op |-> "handleSearchOk", query |-> f.query, data |-> data]
    /\ UNCHANGED <<otherViews, apiDef, localStorage, location, calls,
                   searchBar, details, auth, detFlight, issued>>

\* searchMovies rejects
SearchReject(f) ==
    /\ f \in homeFlight
    /\ f.kind = "search"
    /\ home' = HandleSearchFailure(home)
    /\ homeFlight' = homeFlight \ {f}
    /\ last' = [op |-> "handleSearchFail", query |-> f.query]
    /\ UNCHANGED <<otherViews, apiDef, localStorage, location, calls,
                   searchBar, details, auth, detFlight, issued>>

-----------------------------------------------------------------------------
(* MovieDetails: src/unnamed/part_002 1-251 *)

MovieIds == {1, 2}           \* route parameter :id
Stars == 1..5                \* [1, 2, 3, 4, 5].map((star) => ...)
MovieRoute(id) == "/movie/" \o ToString(id)

NoMovie == [present |-> FALSE, id |-> 0]     \* null

\* bodies getMovie(id) may resolve with; id 0 is a record without an id
MovieBodies(id) == {[present |-> TRUE, id |-> id],
                    [present |-> TRUE, id |-> 0],
                    NoMovie}

\* statuses of a rejected call; 0: the error carries no response
ErrorStatuses == {404, 500, 0}

MutatingKinds == {"rateMovie", "addToWatchlist", "removeFromWatchlist"}

DetCalls == issued.detail + issued.mutate

\* the component is mounted while its route is shown
DetailsMounted == location = MovieRoute(details.id)

\* the 'Your Actions' block is rendered: past the loading, error and
\* not-found returns and inside {isAuthenticated && ...}
ActionsRendered(d, isAuth) ==
    /\ ~d.loading
    /\ d.error = ""
    /\ d.movie.present
    /\ isAuth

\* a star button or the watchlist button accepts a click
ControlsEnabledWhileLoading(d, isAuth) ==
    ActionsRendered(d, isAuth)

ControlsEnabled(d, isAuth) ==
    ActionsRendered(d, isAuth) /\ ~d.actionLoading

\* handleRating: the two guards before the try block
RatingGuardNoAuth(isAuth, movie) ==
    IF ~movie.present \/ movie.id = 0 THEN "return"
    ELSE "call"

RatingGuard(isAuth, movie) ==
    IF ~isAuth THEN "login"
    ELSE IF ~movie.present \/ movie.id = 0 THEN "return"
    ELSE "call"

\* handleWatchlistToggle: the two guards before the try block
WatchlistGuard(isAuth, movie) ==
    IF ~isAuth THEN "login"
    ELSE IF ~movie.present \/ movie.id = 0 THEN "return"
    ELSE "call"

\* handleWatchlistToggle: the facade called inside the try block
ToggleCall(isInWatchlist) ==
    IF isInWatchlist THEN "removeFromWatchlist" ELSE "addToWatchlist"

\* fetchMovieDetails up to the await
FetchMovieDetailsStart(id, isAuth) ==
    /\ DetCalls < MaxDetCalls
    /\ detFlight' = detFlight \cup
                      {[id |-> DetCalls + 1, kind |-> "getMovie",
                        movieId |-> id, rating |-> 0, isAuth |-> isAuth,
                        wasIn |-> FALSE]}
    /\ issued' = [issued EXCEPT !.detail = @ + 1]

\* fetchMovieDetails, try block after the await and the finally block
FetchMovieDetailsSuccess(d, isAuth, body) ==
    [d EXCEPT !.movie = body,
              !.userRating = IF isAuth THEN 0 ELSE @,
              !.isInWatchlist = IF isAuth THEN FALSE ELSE @,
              !.loading = FALSE]

\* fetchMovieDetails, catch and finally blocks
FetchMovieDetailsFailure(d, status) ==
    [d EXCEPT !.error = IF status /= 0
                        THEN "Failed to load movie details: " \o ToString(status)
                        ELSE "Failed to load movie details",
              !.loading = FALSE]

\* handleRating, after the await: try, catch, finally
HandleRatingSuccess(d, rating) ==
    [d EXCEPT !.userRating = rating, !.actionLoading = FALSE]

HandleRatingFailure(d) ==
    [d EXCEPT !.actionLoading = FALSE]

\* handleWatchlistToggle, after the await: try, catch, finally
HandleWatchlistSuccessNoFlip(d, kind) ==
    [d EXCEPT !.actionLoading = FALSE]

HandleWatchlistSuccess(d, kind) ==
    [d EXCEPT !.isInWatchlist = (kind = "addToWatchlist"),
              !.actionLoading = FALSE]

HandleWatchlistFailure(d) ==
    [d EXCEPT !.actionLoading = FALSE]

\* handleRating(rating) up to the await
HandleRating(rating) ==
    /\ DetailsMounted
    /\ LET g == RatingGuard(auth.isAuthenticated, details.movie)
       IN /\ CASE g = "login" ->
                    /\ location' = "/login"
                    /\ UNCHANGED <<details, detFlight, issued>>
                 [] g = "return" ->
                    UNCHANGED <<location, details, detFlight, issued>>
                 [] OTHER ->
                    /\ DetCalls < MaxDetCalls
                    /\ details' = [details EXCEPT !.actionLoading = TRUE]
                    /\ detFlight' = detFlight \cup
                         {[id |-> DetCalls + 1, kind |-> "rateMovie",
                           movieId |-> details.movie.id, rating |-> rating,
                           isAuth |-> auth.isAuthenticated,
                           wasIn |-> details.isInWatchlist]}
                    /\ issued' = [issued EXCEPT !.mutate = @ + 1]
                    /\ UNCHANGED location
          /\ last' = [op |-> "handleRating", rating |-> rating,
                      isAuth |-> auth.isAuthenticated, outcome |-> g]
    /\ UNCHANGED <<otherViews, apiDef, localStorage, calls, home, searchBar,
                   homeFlight, auth>>

\* handleWatchlistToggle() up to the await
HandleWatchlistToggle ==
    /\ DetailsMounted
    /\ LET g == WatchlistGuard(auth.isAuthenticated, details.movie)
       IN /\ CASE g = "login" ->
                    /\ location' = "/login"
                    /\ UNCHANGED <<details, detFlight, issued>>
                 [] g = "return" ->
                    UNCHANGED <<location, details, detFlight, issued>>
                 [] OTHER ->
                    /\ DetCalls < MaxDetCalls
                    /\ details' = [details EXCEPT !.actionLoading = TRUE]
                    /\ detFlight' = detFlight \cup
                         {[id |-> DetCalls + 1,
                           kind |-> ToggleCall(details.isInWatchlist),
                           movieId |-> details.movie.id, rating |-> 0,
                           isAuth |-> auth.isAuthenticated,
                           wasIn |-> details.isInWatchlist]}
                    /\ issued' = [issued EXCEPT !.mutate = @ + 1]
                    /\ UNCHANGED location
          /\ last' = [op |-> "handleWatchlistToggle", rating |-> 0,
                      isAuth |-> auth.isAuthenticated, outcome |-> g]
    /\ UNCHANGED <<otherViews, apiDef, localStorage, calls, home, searchBar,
                   homeFlight, auth>>

\* a click on a star button
ClickStar(star) ==
    /\ ControlsEnabled(details, auth.isAuthenticated)
    /\ HandleRating(star)

\* a click on the watchlist button
ClickWatchlist ==
    /\ ControlsEnabled(details, auth.isAuthenticated)
    /\ HandleWatchlistToggle

\* getMovie resolves
DetailsResolve(f, body) ==
    /\ DetailsMounted
    /\ f \in detFlight
    /\ f.kind = "getMovie"
    /\ details' = FetchMovieDetailsSuccess(details, f.isAuth, body)
    /\ detFlight' = detFlight \ {f}
    /\ last' = [op |-> "fetchMovieDetailsOk"]
    /\ UNCHANGED <<otherViews, apiDef, localStorage, location, calls, home,
                   searchBar, homeFlight, auth, issued>>

\* getMovie rejects
DetailsReject(f, status) ==
    /\ DetailsMounted
    /\ f \in detFlight
    /\ f.kind = "getMovie"
    /\ details' = FetchMovieDetailsFailure(details, status)
    /\ detFlight' = detFlight \ {f}
    /\ last' = [op |-> "fetchMovieDetailsFail"]
    /\ UNCHANGED <<otherViews, apiDef, localStorage, location, calls, home,
                   searchBar, homeFlight, auth, issued>>

\* rateMovie / addToWatchlist / removeFromWatchlist resolves
ActionResolve(f) ==
    /\ DetailsMounted
    /\ f \in detFlight
    /\ f.kind \in MutatingKinds
    /\ details' = IF f.kind = "rateMovie"
                  THEN HandleRatingSuccess(details, f.rating)
                  ELSE HandleWatchlistSuccess(details, f.kind)
    /\ detFlight' = detFlight \ {f}
    /\ last' = [op |-> "actionOk", call |-> f]
    /\ UNCHANGED <<otherViews, apiDef, localStorage, location, calls, home,
                   searchBar, homeFlight, auth, issued>>

\* rateMovie / addToWatchlist / removeFromWatchlist rejects
ActionReject(f) ==
    /\ DetailsMounted
    /\ f \in detFlight
    /\ f.kind \in MutatingKinds
    /\ details' = IF f.kind = "rateMovie"
                  THEN HandleRatingFailure(details)
                  ELSE HandleWatchlistFailure(details)
    /\ detFlight' = detFlight \ {f}
    /\ last' = [op |-> "actionFail", call |-> f]
    /\ UNCHANGED <<otherViews, apiDef, localStorage, location, calls, home,
                   searchBar, homeFlight, auth, issued>>

\* AuthContext flips isAuthenticated (login / logout); fetchMovieDetails is
\* re-created and its effect runs again
AuthChange ==
    /\ DetailsMounted
    /\ auth' = [auth EXCEPT !.isAuthenticated = ~@]
    /\ localStorage' = IF auth.isAuthenticated
                       THEN [token |-> Null, user |-> Null]
                       ELSE [token |-> "t1", user |-> "u1"]
    /\ details' = [details EXCEPT !.loading = TRUE, !.error = ""]
    /\ FetchMovieDetailsStart(details.id, ~auth.isAuthenticated)
    /\ last' = [op |-> "authChange"]
    /\ UNCHANGED <<otherViews, apiDef, location, calls, home, searchBar,
                   homeFlight>>

\* the :id route parameter changes; the effect runs again
RouteChange(id) ==
    /\ DetailsMounted
    /\ id /= details.id
    /\ location' = MovieRoute(id)
    /\ details' = [details EXCEPT !.id = id, !.loading = TRUE, !.error = ""]
    /\ FetchMovieDetailsStart(id, auth.isAuthenticated)
    /\ last' = [op |-> "routeChange"]
    /\ UNCHANGED <<otherViews, apiDef, localStorage, calls, home, searchBar,
                   homeFlight, auth>>

-----------------------------------------------------------------------------
(* MovieSlider: src/unnamed/part_000 90-229 *)

MaxSliderMounts == 2     \* times the slider view is mounted in one run

\* the bodies getMovies({page_size: 10, page: 1}) may resolve with
SliderBodies ==
    {Arr(<<>>), Arr(<<1>>), Arr(<<1, 2, 3>>),
     Obj(TRUE, <<1, 2>>, 2, Null, Null, FALSE, NoPageInfo),
     Obj(FALSE, <<>>, 2, Null, Null, FALSE, NoPageInfo)}

\* the useState defaults
SliderDefaults ==
    [movies |-> List(<<>>), currentIndex |-> 0, loading |-> TRUE,
     error |-> ""]

\* what the component returns: the loading box, the error box, the slides,
\* or a TypeError reading a property of movies[currentIndex]
SliderRendered(s) ==
    IF s.loading THEN "loading"
    ELSE IF s.error /= "" \/ Length(s.movies) = 0 THEN "error"
    ELSE IF s.movies.isArray THEN "slides"
    ELSE "crash"

NextIndexNoWrap(prevIndex, length) == prevIndex + 1

\* prevIndex === movies.length - 1 ? 0 : prevIndex + 1
NextIndex(prevIndex, length) ==
    IF prevIndex = length - 1 THEN 0 ELSE prevIndex + 1

\* prevIndex === 0 ? movies.length - 1 : prevIndex - 1
PrevIndex(prevIndex, length) ==
    IF prevIndex = 0 THEN length - 1 ELSE prevIndex - 1

\* the cleanup returned by the auto-slide effect: clearInterval(interval)
ClearIntervalKeeps(timers) == timers

ClearInterval(timers) == {}

\* the auto-slide effect body, run after its cleanup when movies.length has
\* changed: one interval whose callback closes over that length
AutoSlideEffect(timers, length, handle) ==
    IF length > 0 THEN timers \cup {[id |-> handle, length |-> length]}
    ELSE timers

\* the effects of a commit in which movies becomes newMovies
AutoSlideOnCommit(s, newMovies) ==
    IF Length(newMovies) = Length(s.movies)
    THEN [timers |-> s.timers, handles |-> s.handles]
    ELSE [timers |-> AutoSlideEffect(ClearInterval(s.timers),
                                     Length(newMovies), s.handles + 1),
          handles |-> IF Length(newMovies) > 0 THEN s.handles + 1
                      ELSE s.handles]

\* try branch of fetchPopularMovies, with finally
FetchPopularMoviesSuccess(s, data) ==
    [s EXCEPT !.movies = ResultsOrData(data), !.loading = FALSE,
              !.timers = AutoSlideOnCommit(s, ResultsOrData(data)).timers,
              !.handles = AutoSlideOnCommit(s, ResultsOrData(data)).handles]

\* catch branch of fetchPopularMovies, with finally
FetchPopularMoviesFailure(s) ==
    [s EXCEPT !.error = "Failed to fetch movies", !.loading = FALSE]

\* the slider view is mounted: both effects run, the first one fetches
SliderMount ==
    /\ ~slider.mounted
    /\ issued.popular < MaxSliderMounts
    /\ slider' = [slider EXCEPT !.mounted = TRUE,
                    !.movies = SliderDefaults.movies,
                    !.currentIndex = SliderDefaults.currentIndex,
                    !.loading = SliderDefaults.loading,
                    !.error = SliderDefaults.error,
                    !.fetching = TRUE,
                    !.timers = AutoSlideEffect(slider.timers, 0,
                                               slider.handles + 1)]
    /\ issued' = [issued EXCEPT !.popular = @ + 1]
    /\ last' = [op |-> "sliderMount"]
    /\ UNCHANGED <<apiDef, localStorage, location, calls, home, searchBar,
                   homeFlight, details, auth, detFlight, dashboard,
                   dashFlight, display, config, focus, login>>

\* the slider view is torn down: the effect's cleanup runs, and the response
\* of a call still outstanding finds no component to update
SliderUnmount ==
    /\ slider.mounted
    /\ slider' = [slider EXCEPT !.mounted = FALSE, !.fetching = FALSE,
                    !.timers = ClearInterval(slider.timers)]
    /\ last' = [op |-> "sliderUnmount"]
    /\ UNCHANGED <<apiDef, localStorage, location, calls, home, searchBar,
                   homeFlight, details, auth, detFlight, issued, dashboard,
                   dashFlight, display, config, focus, login>>

\* getMovies resolves
SliderResolve(data) ==
    /\ slider.mounted
    /\ slider.fetching
    /\ slider' = [FetchPopularMoviesSuccess(slider, data)
                    EXCEPT !.fetching = FALSE]
    /\ last' = [op |-> "fetchPopularMoviesOk", data |-> data]
    /\ UNCHANGED <<apiDef, localStorage, location, calls, home, searchBar,
                   homeFlight, details, auth, detFlight, issued, dashboard,
                   dashFlight, display, config, focus, login>>

\* getMovies rejects
SliderReject ==
    /\ slider.mounted
    /\ slider.fetching
    /\ slider' = [FetchPopularMoviesFailure(slider) EXCEPT !.fetching = FALSE]
    /\ last' = [op |-> "fetchPopularMoviesFail"]
    /\ UNCHANGED <<apiDef, localStorage, location, calls, home, searchBar,
                   homeFlight, details, auth, detFlight, issued, dashboard,
                   dashFlight, display, config, focus, login>>

\* an interval fires: nextSlide as captured when the interval was created.
\* A state update of a component that is no longer mounted changes nothing.
Tick(t) ==
    /\ t \in slider.timers
    /\ slider' = IF slider.mounted
                 THEN [slider EXCEPT !.currentIndex = NextIndex(@, t.length)]
                 ELSE slider
    /\ last' = [op |-> "tick", handle |-> t.id, mounted |-> slider.mounted,
                outstanding |-> slider.fetching \/ homeFlight /= {}]
    /\ UNCHANGED <<apiDef, localStorage, location, calls, home, searchBar,
                   homeFlight, details, auth, detFlight, issued, dashboard,
                   dashFlight, display, config, focus, login>>

\* the navigation arrows and the dots, rendered with the slides
ClickNextSlide ==
    /\ slider.mounted
    /\ SliderRendered(slider) = "slides"
    /\ slider' = [slider EXCEPT
                    !.currentIndex = NextIndex(@, Length(slider.movies))]
    /\ last' = [op |-> "nextSlide"]
    /\ UNCHANGED <<apiDef, localStorage, location, calls, home, searchBar,
                   homeFlight, details, auth, detFlight, issued, dashboard,
                   dashFlight, display, config, focus, login>>

ClickPrevSlide ==
    /\ slider.mounted
    /\ SliderRendered(slider) = "slides"
    /\ slider' = [slider EXCEPT
                    !.currentIndex = PrevIndex(@, Length(slider.movies))]
    /\ last' = [op |-> "prevSlide"]
    /\ UNCHANGED <<apiDef, localStorage, location, calls, home, searchBar,
                   homeFlight, details, auth, detFlight, issued, dashboard,
                   dashFlight, display, config, focus, login>>

GoToSlide(index) ==
    /\ slider.mounted
    /\ SliderRendered(slider) = "slides"
    /\ index \in 0..(Length(slider.movies) - 1)
    /\ slider' = [slider EXCEPT !.currentIndex = index]
    /\ last' = [op |-> "goToSlide", index |-> index]
    /\ UNCHANGED <<apiDef, localStorage, location, calls, home, searchBar,
                   homeFlight, details, auth, detFlight, issued, dashboard,
                   dashFlight, display, config, focus, login>>

-----------------------------------------------------------------------------
(* Dashboard: src/unnamed/part_002 252-453 *)

MaxDashCalls == 3        \* network calls issued by Dashboard in one run

Tabs == {"recommendations", "watchlist", "search"}

\* a movie object, and a watchlist entry nesting the movie it is about
Movie(id) == [id |-> id, hasMovie |-> FALSE, movie |-> 0]
Entry(id, movieId) == [id |-> id, hasMovie |-> TRUE, movie |-> movieId]

\* a response body: null, a bare array, or an object with a 'results' or a
\* 'recommendations' property
NullBody ==
    [isNull |-> TRUE, isArray |-> FALSE, items |-> <<>>,
     hasResults |-> FALSE, results |-> <<>>,
     hasRecs |-> FALSE, recommendations |-> <<>>]

ArrayBody(s) == [NullBody EXCEPT !.isNull = FALSE, !.isArray = TRUE,
                                 !.items = s]
ResultsBody(s) == [NullBody EXCEPT !.isNull = FALSE, !.hasResults = TRUE,
                                   !.results = s]
NestedBody(s) == [NullBody EXCEPT !.isNull = FALSE, !.hasRecs = TRUE,
                                  !.recommendations = s]

\* a value held in the recommendations / watchlist / searchResults cells
DashList(s) == [isArray |-> TRUE, items |-> s, hasRecs |-> FALSE,
                recommendations |-> <<>>]

\* the bodies getUserRecommendations() may resolve with
RecommendationBodies ==
    {ArrayBody(<<Movie(1)>>), ResultsBody(<<Movie(2), Movie(1)>>),
     NestedBody(<<Movie(3), Movie(1)>>), NullBody}

\* the bodies getWatchlist() may resolve with
WatchlistBodies ==
    {ArrayBody(<<Entry(10, 4), Movie(5)>>),
     ResultsBody(<<Entry(11, 5), Entry(12, 4)>>), NullBody}

\* the bodies searchMovies(query) may resolve with
DashSearchBodies(query) ==
    {ArrayBody(<<>>), ArrayBody(<<Movie(Hit(query))>>),
     ResultsBody(<<Movie(Hit(query))>>)}

CatchEmptyRethrows(outcome) == outcome

\* .catch(() => ({ data: [] }))
CatchEmpty(outcome) ==
    IF outcome.ok THEN outcome ELSE [ok |-> TRUE, body |-> ArrayBody(<<>>)]

\* data.results || data || [] for a body that is not null
ResultsOrDataOrEmptyNoResults(data) ==
    [isArray |-> data.isArray, items |-> data.items,
     hasRecs |-> data.hasRecs, recommendations |-> data.recommendations]

ResultsOrDataOrEmpty(data) ==
    IF data.hasResults THEN DashList(data.results)
    ELSE [isArray |-> data.isArray, items |-> data.items,
          hasRecs |-> data.hasRecs, recommendations |-> data.recommendations]

\* the useState defaults
DashboardDefaults ==
    [recommendations |-> DashList(<<>>), watchlist |-> DashList(<<>>),
     searchResults |-> DashList(<<>>), loading |-> TRUE, searchQuery |-> "",
     activeTab |-> "recommendations", error |-> ""]

DashboardMounted == location = "/dashboard"

\* item.movie || item
MovieOrItem(item) == IF item.hasMovie THEN Movie(item.movie) ELSE item

\* getCurrentMovies(): the value whose .length and .map the content reads;
\* ok is false when watchlist.map is not a function
GetCurrentMovies(d) ==
    CASE d.activeTab = "recommendations" ->
           [ok |-> TRUE,
            value |-> IF d.recommendations.hasRecs
                      THEN DashList(d.recommendations.recommendations)
                      ELSE d.recommendations]
      [] d.activeTab = "watchlist" ->
           IF d.watchlist.isArray
           THEN [ok |-> TRUE,
                 value |-> DashList([i \in 1..Len(d.watchlist.items) |->
                                       MovieOrItem(d.watchlist.items[i])])]
           ELSE [ok |-> FALSE, value |-> DashList(<<>>)]
      [] d.activeTab = "search" -> [ok |-> TRUE, value |-> d.searchResults]
      [] OTHER -> [ok |-> TRUE, value |-> DashList(<<>>)]

\* what the component returns: the redirect, the page with the loading box,
\* the page with the grid of getCurrentMovies() (or the empty text), or a
\* TypeError
DashboardRendered(d, isAuth) ==
    IF ~isAuth THEN "redirect"
    ELSE IF d.loading THEN "loading"
    ELSE IF GetCurrentMovies(d).ok THEN "movies"
    ELSE "crash"

\* the tab buttons and the SearchBar are part of the page
DashControlsRendered ==
    /\ DashboardMounted
    /\ DashboardRendered(dashboard, auth.isAuthenticated)
         \in {"loading", "movies"}

\* the search tab button: {searchQuery && (...)}
TabRendered(d, tab) == tab = "search" => TruthyStr(d.searchQuery)

DashCalls == issued.recs + issued.watch + issued.dsearch

\* fetchDashboardData up to its await: both calls are issued together
DataFlights(batch) ==
    {[id |-> batch, kind |-> k, query |-> "", settled |-> FALSE,
      failed |-> FALSE, body |-> NullBody] : k \in {"recs", "watch"}}

\* the effect on [isAuthenticated]: if (isAuthenticated) fetchDashboardData()
DataEffectAlways(isAuth) == TRUE

DataEffect(isAuth) == isAuth

\* try branch of fetchDashboardData: a null body throws where it is read
FetchDashboardDataTry(d, recBody, watchBody) ==
    IF recBody.isNull
    THEN [d EXCEPT !.error = "Failed to load dashboard data"]
    ELSE IF watchBody.isNull
    THEN [d EXCEPT !.recommendations = ResultsOrDataOrEmpty(recBody),
                   !.error = "Failed to load dashboard data"]
    ELSE [d EXCEPT !.recommendations = ResultsOrDataOrEmpty(recBody),
                   !.watchlist = ResultsOrDataOrEmpty(watchBody)]

\* the continuation of fetchDashboardData, with finally
FetchDashboardDataDone(d, recBody, watchBody) ==
    [FetchDashboardDataTry(d, recBody, watchBody) EXCEPT !.loading = FALSE]

\* the Dashboard route is entered: useState defaults, then the effect
DashMount ==
    /\ ~DashboardMounted
    /\ DataEffect(auth.isAuthenticated) => DashCalls + 2 <= MaxDashCalls
    /\ location' = "/dashboard"
    /\ dashboard' = DashboardDefaults
    /\ searchBar' = [query |-> ""]
    /\ IF DataEffect(auth.isAuthenticated)
       THEN /\ dashFlight' = DataFlights(DashCalls + 1)
            /\ issued' = [issued EXCEPT !.recs = @ + 1, !.watch = @ + 1]
       ELSE /\ dashFlight' = {}
            /\ UNCHANGED issued
    /\ last' = [op |-> "dashMount", isAuth |-> auth.isAuthenticated]
    /\ UNCHANGED <<apiDef, localStorage, calls, home, homeFlight, details,
                   auth, detFlight, slider, display, config, focus, login>>

\* <Navigate to="/login" replace />: the route changes and the Dashboard is
\* unmounted; responses still outstanding find no component to update
DashRedirect ==
    /\ DashboardMounted
    /\ DashboardRendered(dashboard, auth.isAuthenticated) = "redirect"
    /\ location' = "/login"
    /\ dashFlight' = {}
    /\ last' = [op |-> "redirect"]
    /\ UNCHANGED <<apiDef, localStorage, calls, home, searchBar, homeFlight,
                   details, auth, detFlight, issued, dashboard, slider, display,
                   config, focus, login>>

\* the AuthContext logs the user out while the Dashboard is mounted; the
\* effect runs again and finds isAuthenticated false
DashLogout ==
    /\ DashboardMounted
    /\ auth.isAuthenticated
    /\ auth' = [isAuthenticated |-> FALSE]
    /\ localStorage' = [token |-> Null, user |-> Null]
    /\ last' = [op |-> "logout"]
    /\ UNCHANGED <<apiDef, location, calls, home, searchBar, homeFlight,
                   details, detFlight, issued, dashboard, dashFlight, slider,
                   display, config, focus, login>>

\* the AuthContext logs the user in on the login page
DashLogin ==
    /\ location = "/login"
    /\ ~auth.isAuthenticated
    /\ auth' = [isAuthenticated |-> TRUE]
    /\ localStorage' = [token |-> "t1", user |-> "u1"]
    /\ last' = [op |-> "login"]
    /\ UNCHANGED <<apiDef, location, calls, home, searchBar, homeFlight,
                   details, detFlight, issued, dashboard, dashFlight, slider,
                   display, config, focus, login>>

\* one of the two calls of fetchDashboardData settles (a rejection is
\* replaced by { data: [] }); when it is the second one, Promise.all resolves
\* and the continuation runs
DashDataSettle(f, outcome) ==
    /\ DashboardMounted
    /\ f \in dashFlight
    /\ f.kind \in {"recs", "watch"}
    /\ ~f.settled
    /\ LET mine == [f EXCEPT !.settled = TRUE, !.failed = ~outcome.ok,
                             !.body = CatchEmpty(outcome).body]
           others == {g \in dashFlight : /\ g.kind \in {"recs", "watch"}
                                         /\ g.kind /= f.kind}
           rec == CHOOSE g \in others \cup {mine} : g.kind = "recs"
           watch == CHOOSE g \in others \cup {mine} : g.kind = "watch"
       IN  IF ~CatchEmpty(outcome).ok
           THEN \* the rejection reaches Promise.all: catch, finally
                /\ dashboard' = [dashboard EXCEPT
                                   !.error = "Failed to load dashboard data",
                                   !.loading = FALSE]
                /\ dashFlight' = (dashFlight \ {f}) \ others
                /\ last' = [op |-> "fetchDashboardDataFail", call |-> f.kind,
                            failed |-> {f.kind}]
           ELSE IF \E g \in others : ~g.settled
           THEN /\ dashFlight' = (dashFlight \ {f}) \cup {mine}
                /\ last' = [op |-> "settle", call |-> f.kind,
                            failed |-> IF outcome.ok THEN {} ELSE {f.kind}]
                /\ UNCHANGED dashboard
           ELSE /\ dashboard' = FetchDashboardDataDone(dashboard, rec.body,
                                                       watch.body)
                /\ dashFlight' = (dashFlight \ {f}) \ others
                /\ last' = [op |-> "fetchDashboardDataDone",
                            call |-> f.kind,
                            bodies |-> [recs |-> rec.body,
                                        watch |-> watch.body],
                            failed |-> {g.kind : g \in
                                {h \in others \cup {mine} : h.failed}}]
    /\ UNCHANGED <<apiDef, localStorage, location, calls, home, searchBar,
                   homeFlight, details, auth, detFlight, issued, slider,
                   display, config, focus, login>>

\* handleSearch with an empty query
DashHandleSearchEmpty(d) ==
    [d EXCEPT !.searchResults = DashList(<<>>), !.searchQuery = ""]

\* handleSearch up to its await
DashHandleSearchStart(d, query) == [d EXCEPT !.searchQuery = query]

\* try branch of handleSearch after the await
DashHandleSearchSuccess(d, data) ==
    [d EXCEPT !.searchResults = ResultsOrDataOrEmpty(data),
              !.activeTab = "search"]

\* catch branch of handleSearch
DashHandleSearchFailureSilent(d) == d

DashHandleSearchFailure(d) == [d EXCEPT !.error = "Search failed"]

DashHandleSearch(query) ==
    IF ~TruthyStr(query)
    THEN /\ dashboard' = DashHandleSearchEmpty(dashboard)
         /\ UNCHANGED <<dashFlight, issued>>
    ELSE /\ DashCalls < MaxDashCalls
         /\ dashboard' = DashHandleSearchStart(dashboard, query)
         /\ dashFlight' = dashFlight \cup
              {[id |-> DashCalls + 1, kind |-> "search", query |-> query,
                settled |-> FALSE, failed |-> FALSE, body |-> NullBody]}
         /\ issued' = [issued EXCEPT !.dsearch = @ + 1]

\* SearchBar.handleSubmit inside the Dashboard
DashSubmit ==
    /\ DashControlsRendered
    /\ IF SubmittedQuery(searchBar.query) /= Null
       THEN DashHandleSearch(SubmittedQuery(searchBar.query))
       ELSE UNCHANGED <<dashboard, dashFlight, issued>>
    /\ last' = [op |-> "dashSubmit", text |-> searchBar.query]
    /\ UNCHANGED <<apiDef, localStorage, location, calls, home, searchBar,
                   homeFlight, details, auth, detFlight, slider, display,
                   config, focus, login>>

\* SearchBar.handleClear inside the Dashboard
DashClickClear ==
    /\ DashControlsRendered
    /\ ClearButtonRendered
    /\ searchBar' = [query |-> ""]
    /\ DashHandleSearch("")
    /\ last' = [op |-> "dashClear"]
    /\ UNCHANGED <<apiDef, localStorage, location, calls, home, homeFlight,
                   details, auth, detFlight, slider, display, config, focus,
                   login>>

\* SearchBar.handleChange inside the Dashboard
DashType(text) ==
    /\ DashControlsRendered
    /\ Type(text)

\* searchMovies resolves
DashSearchResolve(f, data) ==
    /\ DashboardMounted
    /\ f \in dashFlight
    /\ f.kind = "search"
    /\ dashboard' = DashHandleSearchSuccess(dashboard, data)
    /\ dashFlight' = dashFlight \ {f}
    /\ last' = [op |-> "dashSearchOk", query |-> f.query, data |-> data]
    /\ UNCHANGED <<apiDef, localStorage, location, calls, home, searchBar,
                   homeFlight, details, auth, detFlight, issued, slider,
                   display, config, focus, login>>

\* searchMovies rejects
DashSearchReject(f) ==
    /\ DashboardMounted
    /\ f \in dashFlight
    /\ f.kind = "search"
    /\ dashboard' = DashHandleSearchFailure(dashboard)
    /\ dashFlight' = dashFlight \ {f}
    /\ last' = [op |-> "dashSearchFail", query |-> f.query]
    /\ UNCHANGED <<apiDef, localStorage, location, calls, home, searchBar,
                   homeFlight, details, auth, detFlight, issued, slider,
                   display, config, focus, login>>

\* handleTabChange
HandleTabChangeKeepsSearch(d, tab) == [d EXCEPT !.activeTab = tab]

HandleTabChange(d, tab) ==
    IF tab /= "search"
    THEN [d EXCEPT !.activeTab = tab, !.searchQuery = "",
                   !.searchResults = DashList(<<>>)]
    ELSE [d EXCEPT !.activeTab = tab]

\* a tab button is clicked
ClickTab(tab) ==
    /\ DashControlsRendered
    /\ TabRendered(dashboard, tab)
    /\ dashboard' = HandleTabChange(dashboard, tab)
    /\ last' = [op |-> "handleTabChange", tab |-> tab]
    /\ UNCHANGED <<apiDef, localStorage, location, calls, home, searchBar,
                   homeFlight, details, auth, detFlight, issued, dashFlight,
                   slider, display, config, focus, login>>

-----------------------------------------------------------------------------
(* Display helpers of MovieCard (src/unnamed/part_000 1-89), MovieSlider   *)
(* (part_000 142-191) and MovieDetails (part_002 100-102, 178)             *)

Views == {"MovieCard", "MovieSlider", "MovieDetails"}

NoRating == -1       \* vote_average is null or absent
NaN == -1            \* the year of an Invalid Date

\* vote averages in hundredths (840 is 8.4). A value ending in 5 is left
\* out: which way toFixed(1) rounds it depends on its binary expansion.
Ratings == {NoRating, 0, 700, 840, 844, 846, 999}

\* release_date values: null, '', a yyyy-mm-dd string, any other text. The
\* days are mid-month, where local time and UTC name the same year.
NoDate == [text |-> "null", year |-> 0, month |-> 0, day |-> 0]
IsoDate(y, m, d) == [text |-> "iso", year |-> y, month |-> m, day |-> d]
Dates ==
    {NoDate, [NoDate EXCEPT !.text = ""], [NoDate EXCEPT !.text = "soon"],
     IsoDate(1999, 12, 15), IsoDate(2020, 6, 15), IsoDate(2020, 13, 15),
     IsoDate(2021, 6, 45)}

PosterUrls == {Null, "", "p.jpg"}

MovieProps ==
    [poster_url : PosterUrls, vote_average : Ratings, release_date : Dates]

\* !dateString
DateIsFalsy(date) == date.text \in {"null", ""}

\* new Date(dateString).getFullYear()
GetFullYear(date) ==
    IF date.text = "iso" /\ date.month \in 1..12 /\ date.day \in 1..31
    THEN date.year
    ELSE NaN

\* a number as JSX prints it
NumberText(n) == IF n = NaN THEN "NaN" ELSE ToString(n)

\* x.toFixed(1) for x given in hundredths
ToFixed1Truncates(x) ==
    ToString((x \div 10) \div 10) \o "." \o ToString((x \div 10) % 10)

ToFixed1(x) ==
    ToString(((x + 5) \div 10) \div 10) \o "."
        \o ToString(((x + 5) \div 10) % 10)

\* formatRating of MovieCard and of MovieDetails: rating ? ... : 'N/A'
FormatRating(rating) ==
    IF rating = NoRating \/ rating = 0 THEN "N/A" ELSE ToFixed1(rating)

\* MovieCard.extractYear
ExtractYear(date) ==
    IF DateIsFalsy(date) THEN "Unknown Year"
    ELSE IF GetFullYear(date) = NaN THEN "Unknown Year"
    ELSE NumberText(GetFullYear(date))

\* MovieSlider.extractYear
SliderExtractYear(date) ==
    IF DateIsFalsy(date) THEN "Unknown Year"
    ELSE NumberText(GetFullYear(date))

\* {currentMovie.vote_average && (...toFixed(1))}: null prints nothing and
\* 0 prints itself
SliderRating(rating) ==
    IF rating = NoRating THEN ""
    ELSE IF rating = 0 THEN "0"
    ELSE ToFixed1(rating)

\* the poster of a MovieCard: the <img> when poster_url is truthy, and the
\* placeholder's display style
CardPoster(movie) ==
    IF TruthyStr(movie.poster_url)
    THEN [img |-> "shown", placeholder |-> "none"]
    ELSE [img |-> "absent", placeholder |-> "flex"]

\* the <img>'s onError handler
OnErrorHidesOnly(poster) == [poster EXCEPT !.img = "none"]

OnError(poster) == [img |-> "none", placeholder |-> "flex"]

NoPoster == [img |-> "absent", placeholder |-> "absent"]

\* nothing rendered yet for the movie
Unrendered(movie) ==
    [view |-> "none", movie |-> movie, poster |-> NoPoster, rating |-> "",
     year |-> ""]

\* a component renders the movie
RenderMovie(view) ==
    /\ display.view = "none"
    /\ display' =
         [view |-> view, movie |-> display.movie,
          poster |-> IF view = "MovieCard" THEN CardPoster(display.movie)
                     ELSE NoPoster,
          rating |-> IF view = "MovieSlider"
                     THEN SliderRating(display.movie.vote_average)
                     ELSE FormatRating(display.movie.vote_average),
          year |-> CASE view = "MovieCard" ->
                          ExtractYear(display.movie.release_date)
                     [] view = "MovieSlider" ->
                          SliderExtractYear(display.movie.release_date)
                     [] OTHER -> ""]
    /\ last' = [op |-> "render", view |-> view]
    /\ UNCHANGED <<apiDef, localStorage, location, calls, home, searchBar,
                   homeFlight, details, auth, detFlight, issued, dashboard,
                   dashFlight, slider, config, focus, login>>

\* the poster image fails to load
ImgError ==
    /\ display.view = "MovieCard"
    /\ display.poster.img = "shown"
    /\ display' = [display EXCEPT !.poster = OnError(display.poster)]
    /\ last' = [op |-> "onError"]
    /\ UNCHANGED <<apiDef, localStorage, location, calls, home, searchBar,
                   homeFlight, details, auth, detFlight, issued, dashboard,
                   dashFlight, slider, config, focus, login>>

-----------------------------------------------------------------------------
(* Base URL of the axios instance: src/movie-frontend/README.md 125-130,   *)
(* 190-204. A string is the sequence of its characters.                    *)

MaxEnvLen == 3           \* length of REACT_APP_API_URL

EnvChars == {"a", "/", " "}

\* 'http://127.0.0.1:8000/api' and '/api'
DevDefault ==
    <<"h", "t", "t", "p", ":", "/", "/", "1", "2", "7", ".", "0", ".", "0",
      ".", "1", ":", "8", "0", "0", "0", "/", "a", "p", "i">>
ProdDefault == <<"/", "a", "p", "i">>

\* process.env.REACT_APP_API_URL: undefined, or a string
EnvValues ==
    {[set |-> FALSE, text |-> <<>>]}
    \cup {[set |-> TRUE, text |-> s] :
            s \in UNION {[1..n -> EnvChars] : n \in 0..MaxEnvLen}}

\* s.trim()
RECURSIVE TrimStart(_)
TrimStart(s) ==
    IF s /= <<>> /\ Head(s) = " " THEN TrimStart(Tail(s)) ELSE s

RECURSIVE TrimEnd(_)
TrimEnd(s) ==
    IF s /= <<>> /\ s[Len(s)] = " "
    THEN TrimEnd(SubSeq(s, 1, Len(s) - 1))
    ELSE s

TrimString(s) == TrimEnd(TrimStart(s))

\* s.endsWith('/')
EndsWithSlash(s) == s /= <<>> /\ s[Len(s)] = "/"

\* (s) => (s.endsWith('/') ? s : s + '/')
EnsureTrailingSlash(s) == IF EndsWithSlash(s) THEN s ELSE Append(s, "/")

\* first definition: process.env.REACT_APP_API_URL || 'http://127.0.0.1:8000/api'
FirstBase(env) ==
    IF env.set /\ env.text /= <<>> THEN env.text ELSE DevDefault

\* second definition: (env && env.trim()) || (PROD ? '/api' : 'http://...')
SecondBase(env, prod) ==
    IF env.set /\ env.text /= <<>> /\ TrimString(env.text) /= <<>>
    THEN TrimString(env.text)
    ELSE IF prod THEN ProdDefault ELSE DevDefault

\* the baseURL option given to axios.create
BaseURL(def, env, prod) ==
    IF def = 1 THEN FirstBase(env)
    ELSE EnsureTrailingSlash(SecondBase(env, prod))

\* the api module is evaluated
CreateApi ==
    /\ ~config.created
    /\ config' = [config EXCEPT
                    !.created = TRUE,
                    !.baseURL = BaseURL(apiDef, config.env, config.prod)]
    /\ last' = [op |-> "create"]
    /\ UNCHANGED <<apiDef, localStorage, location, calls, home, searchBar,
                   homeFlight, details, auth, detFlight, issued, dashboard,
                   dashFlight, slider, display, focus, login>>

-----------------------------------------------------------------------------
(* Login: src/unnamed/part_003. The AuthContext behind useAuth() is not    *)
(* part of the sources: login() is a call that settles with                *)
(* { success: true } after the session was created, or with                *)
(* { success: false } after the context's error was set; the context's     *)
(* loading flag is true while the call is outstanding.                     *)

MaxLoginCalls == 2       \* login calls issued in one run

\* what the user can have typed into a field
FieldValues == {"", " ", "u"}

\* the useState defaults, with the context's loading and error
LoginDefaults ==
    [formData |-> [username |-> "", password |-> ""], localError |-> "",
     loading |-> FALSE, error |-> "", flights |-> {}, issued |-> 0]

LoginMounted == location = "/login"

\* localError || error
DisplayError(l) == IF l.localError /= "" THEN l.localError ELSE l.error

\* handleChange
HandleChange(l, name, value) ==
    [l EXCEPT !.formData[name] = value, !.localError = ""]

SubmitBlockedUsernameOnly(formData) == formData.username = ""

\* handleSubmit: !formData.username || !formData.password
SubmitBlocked(formData) == formData.username = "" \/ formData.password = ""

\* login(formData) of the AuthContext up to its network call
ContextLoginStart(l) ==
    [l EXCEPT !.loading = TRUE, !.error = "",
              !.issued = @ + 1,
              !.flights = @ \cup {[id |-> l.issued + 1,
                                   formData |-> l.formData]}]

\* login(formData) of the AuthContext once the call has settled
ContextLoginDone(l, f, success) ==
    [l EXCEPT !.loading = FALSE,
              !.error = IF success THEN @ ELSE "Login failed",
              !.flights = @ \ {f}]

\* navigate('/dashboard'): the router renders the Dashboard route, whose
\* mount sets the useState defaults and runs the effect
NavigateToDashboard(isAuth) ==
    /\ DataEffect(isAuth) => DashCalls + 2 <= MaxDashCalls
    /\ location' = "/dashboard"
    /\ dashboard' = DashboardDefaults
    /\ searchBar' = [query |-> ""]
    /\ IF DataEffect(isAuth)
       THEN /\ dashFlight' = DataFlights(DashCalls + 1)
            /\ issued' = [issued EXCEPT !.recs = @ + 1, !.watch = @ + 1]
       ELSE /\ dashFlight' = {}
            /\ UNCHANGED issued

\* the effect on [isAuthenticated, navigate]
LoginAuthEffect ==
    /\ LoginMounted
    /\ auth.isAuthenticated
    /\ NavigateToDashboard(auth.isAuthenticated)
    /\ last' = [op |-> "loginEffect"]
    /\ UNCHANGED <<apiDef, localStorage, calls, home, homeFlight, details,
                   auth, detFlight, slider, display, config, focus, login>>

\* a field is edited
LoginChange(name, value) ==
    /\ LoginMounted
    /\ value /= login.formData[name]
    /\ login' = HandleChange(login, name, value)
    /\ last' = [op |-> "loginChange", name |-> name]
    /\ UNCHANGED <<apiDef, localStorage, location, calls, home, searchBar,
                   homeFlight, details, auth, detFlight, issued, dashboard,
                   dashFlight, slider, display, config, focus>>

\* handleSubmit up to its await, however the submit event was raised; the
\* submit button is disabled={loading}
LoginSubmit ==
    /\ LoginMounted
    /\ ~login.loading
    /\ IF SubmitBlocked(login.formData)
       THEN login' = [login EXCEPT
                        !.localError = "Please fill in all fields"]
       ELSE /\ login.issued < MaxLoginCalls
            /\ login' = ContextLoginStart(login)
    /\ last' = [op |-> "loginSubmit", formData |-> login.formData]
    /\ UNCHANGED <<apiDef, localStorage, location, calls, home, searchBar,
                   homeFlight, details, auth, detFlight, issued, dashboard,
                   dashFlight, slider, display, config, focus>>

\* the login call settles and handleSubmit continues:
\* if (result.success) navigate('/dashboard')
LoginSettle(f, success) ==
    /\ f \in login.flights
    /\ login' = ContextLoginDone(login, f, success)
    /\ IF success
       THEN /\ auth' = [isAuthenticated |-> TRUE]
            /\ localStorage' = [token |-> "t1", user |-> "u1"]
            /\ IF location = "/dashboard"
               THEN UNCHANGED <<location, dashboard, searchBar, dashFlight,
                                issued>>
               ELSE NavigateToDashboard(TRUE)
       ELSE UNCHANGED <<auth, localStorage, location, dashboard, searchBar,
                        dashFlight, issued>>
    /\ last' = [op |-> "loginSettled", success |-> success,
                formData |-> f.formData]
    /\ UNCHANGED <<apiDef, calls, home, homeFlight, details, detFlight,
                   slider, display, config, focus>>

\* the AuthContext restores a stored session while Login is shown
LoginSessionRestored ==
    /\ LoginMounted
    /\ ~auth.isAuthenticated
    /\ auth' = [isAuthenticated |-> TRUE]
    /\ localStorage' = [token |-> "t1", user |-> "u1"]
    /\ last' = [op |-> "sessionRestored"]
    /\ UNCHANGED <<apiDef, location, calls, home, searchBar, homeFlight,
                   details, detFlight, issued, dashboard, dashFlight, slider,
                   display, config, focus, login>>

-----------------------------------------------------------------------------
(* Initial states and specifications *)

\* a session is persisted exactly when the user is authenticated
Sessions ==
    {<<[token |-> Null, user |-> Null], [isAuthenticated |-> FALSE]>>}
    \cup {<<[token |-> t, user |-> u], [isAuthenticated |-> TRUE]>> :
            t \in Tokens, u \in Users}

\* Home after mount: the useState defaults and the effect's fetchMovies()
HomeMounted ==
    /\ home = [movies |-> List(<<>>), searchResults |-> List(<<>>),
               loading |-> TRUE, searching |-> FALSE, error |-> "",
               searchQuery |-> "", currentPage |-> 1, totalPages |-> 1,
               hasNext |-> FALSE, hasPrevious |-> FALSE]
    /\ searchBar = [query |-> ""]
    /\ homeFlight = {[id |-> 1, kind |-> "browse", page |-> 1, query |-> ""]}

\* MovieDetails after mount: the useState defaults and the effect's
\* fetchMovieDetails()
DetailsMountedInit ==
    /\ details = [id |-> 1, movie |-> NoMovie, loading |-> TRUE,
                  error |-> "", userRating |-> 0, isInWatchlist |-> FALSE,
                  actionLoading |-> FALSE]
    /\ detFlight = {[id |-> 1, kind |-> "getMovie", movieId |-> 1,
                     rating |-> 0, isAuth |-> auth.isAuthenticated,
                     wasIn |-> FALSE]}

\* the Dashboard route has not been entered
DashboardUnmounted ==
    /\ dashboard = DashboardDefaults
    /\ dashFlight = {}

\* MovieSlider after mount: the useState defaults, the effect's
\* fetchPopularMovies() and the auto-slide effect on an empty list
SliderMounted ==
    slider = [movies |-> SliderDefaults.movies,
              currentIndex |-> SliderDefaults.currentIndex,
              loading |-> SliderDefaults.loading,
              error |-> SliderDefaults.error,
              mounted |-> TRUE, fetching |-> TRUE,
              timers |-> AutoSlideEffect({}, 0, 1), handles |-> 0]

\* no movie rendered; the api module not yet evaluated
DisplayIdle ==
    display = Unrendered([poster_url |-> Null, vote_average |-> NoRating,
                          release_date |-> NoDate])
ConfigIdle ==
    config = [env |-> [set |-> FALSE, text |-> <<>>], prod |-> FALSE,
              created |-> FALSE, baseURL |-> <<>>]

InitCommon ==
    /\ apiDef \in {1, 2}
    /\ \E ses \in Sessions : localStorage = ses[1] /\ auth = ses[2]
    /\ calls = <<>>
    /\ HomeMounted
    /\ DetailsMountedInit
    /\ DashboardUnmounted
    /\ SliderMounted
    /\ login = LoginDefaults
    /\ issued = [browse |-> 1, search |-> 0, detail |-> 1, mutate |-> 0,
                 recs |-> 0, watch |-> 0, dsearch |-> 0, popular |-> 1]
    /\ last = [op |-> "init"]

InitApi ==
    InitCommon /\ location \in Routes /\ DisplayIdle /\ ConfigIdle /\ focus = "none"
InitHome ==
    InitCommon /\ location = "/" /\ DisplayIdle /\ ConfigIdle /\ focus = "none"
InitDetails ==
    /\ InitCommon /\ location = MovieRoute(1)
    /\ DisplayIdle /\ ConfigIdle /\ focus = "none"
\* the page controllers read neither the api definition nor the token
OneSession == apiDef = 2 /\ localStorage.token /= "t2"

InitDashboard ==
    /\ InitCommon /\ OneSession /\ location = "/login"
    /\ DisplayIdle /\ ConfigIdle /\ focus = "none"
InitSlider == InitHome
InitLogin == InitDashboard
InitDisplay ==
    /\ InitCommon /\ location = "/" /\ ConfigIdle /\ focus = "none"
    /\ display \in {Unrendered(m) : m \in MovieProps}
InitConfig ==
    /\ InitCommon /\ location = "/" /\ DisplayIdle /\ focus = "none"
    /\ config \in {[env |-> e, prod |-> p, created |-> FALSE,
                     baseURL |-> <<>>] : e \in EnvValues, p \in BOOLEAN}

\* the components a run may follow
Components == {"Home", "MovieSlider", "MovieDetails", "Dashboard"}
\* one component is followed: the components share no state
InitPages ==
    /\ InitCommon /\ OneSession /\ DisplayIdle /\ ConfigIdle
    /\ focus \in Components
    /\ location = CASE focus = "MovieDetails" -> MovieRoute(1)
                     [] focus = "Dashboard" -> "/login"
                     [] OTHER -> "/"

NextApi ==
    \/ \E e \in Endpoints : FacadeCall(e)
    \/ \E i \in 1..MaxCalls, st \in Statuses : Respond(i, st)
    \/ \E t \in Tokens, u \in Users : StoreSession(t, u)
    \/ ClearSession
    \/ \E p \in Routes : Navigate(p)

NextHome ==
    \/ ClickPrevious
    \/ ClickNext
    \/ \E f \in homeFlight : \E data \in BrowseBodies(f.page) :
          BrowseResolve(f, data)
    \/ \E f \in homeFlight : BrowseReject(f)
    \/ \E text \in Texts : Type(text)
    \/ Submit
    \/ ClickClear
    \/ \E f \in homeFlight : \E data \in SearchBodies(f.query) :
          SearchResolve(f, data)
    \/ \E f \in homeFlight : SearchReject(f)

NextDetailsCommon ==
    \/ \E f \in detFlight : \E body \in MovieBodies(f.movieId) :
          DetailsResolve(f, body)
    \/ \E f \in detFlight, st \in ErrorStatuses : DetailsReject(f, st)
    \/ \E f \in detFlight : ActionResolve(f)
    \/ \E f \in detFlight : ActionReject(f)
    \/ AuthChange
    \/ \E id \in MovieIds : RouteChange(id)

\* the handlers are reached through the rendered controls only
NextDetails ==
    \/ \E star \in Stars : ClickStar(star)
    \/ ClickWatchlist
    \/ NextDetailsCommon

\* the handlers are called in any state of the mounted component
NextHandlers ==
    \/ \E star \in Stars : HandleRating(star)
    \/ HandleWatchlistToggle
    \/ NextDetailsCommon

\* what a call of fetchDashboardData may settle with
DataOutcomes(kind) ==
    {[ok |-> TRUE, body |-> b] :
        b \in IF kind = "recs" THEN RecommendationBodies
              ELSE WatchlistBodies}
    \cup {[ok |-> FALSE, body |-> NullBody]}

NextDashboard ==
    \/ DashMount
    \/ DashRedirect
    \/ DashLogout
    \/ DashLogin
    \/ \E f \in dashFlight : \E outcome \in DataOutcomes(f.kind) :
          DashDataSettle(f, outcome)
    \/ \E text \in Texts : DashType(text)
    \/ DashSubmit
    \/ DashClickClear
    \/ \E f \in dashFlight : \E data \in DashSearchBodies(f.query) :
          DashSearchResolve(f, data)
    \/ \E f \in dashFlight : DashSearchReject(f)
    \/ \E tab \in Tabs : ClickTab(tab)

\* the slider, and the mount fetch of the Home page that renders it
NextSlider ==
    \/ SliderMount
    \/ SliderUnmount
    \/ \E data \in SliderBodies : SliderResolve(data)
    \/ SliderReject
    \/ \E t \in slider.timers : Tick(t)
    \/ ClickNextSlide
    \/ ClickPrevSlide
    \/ \E index \in 0..2 : GoToSlide(index)
    \/ \E f \in homeFlight : BrowseReject(f)

NextDisplay ==
    \/ \E view \in Views : RenderMovie(view)
    \/ ImgError

NextConfig == CreateApi

NextLogin ==
    \/ LoginAuthEffect
    \/ \E name \in {"username", "password"}, value \in FieldValues :
          LoginChange(name, value)
    \/ LoginSubmit
    \/ \E f \in login.flights, success \in BOOLEAN : LoginSettle(f, success)
    \/ LoginSessionRestored

NextPages ==
    \/ focus = "Home" /\ NextHome
    \/ focus = "MovieSlider" /\ NextSlider
    \/ focus = "MovieDetails" /\ NextDetails
    \/ focus = "Dashboard" /\ NextDashboard

SpecApi == InitApi /\ [][NextApi]_vars
SpecDashboard == InitDashboard /\ [][NextDashboard]_vars
SpecSlider == InitSlider /\ [][NextSlider]_vars
SpecDisplay == InitDisplay /\ [][NextDisplay]_vars
SpecConfig == InitConfig /\ [][NextConfig]_vars
SpecLogin == InitLogin /\ [][NextLogin]_vars
SpecPages == InitPages /\ [][NextPages]_vars
SpecHome == InitHome /\ [][NextHome]_vars
SpecDetails == InitDetails /\ [][NextDetails]_vars
SpecHandlers == InitDetails /\ [][NextHandlers]_vars

-----------------------------------------------------------------------------
(* Properties of the HTTP client wrapper *)

Settled(c) == c.state \in {"resolved", "rejected"}

\* C1: whenever a call issued through the wrapper settles, a 401 status has
\* removed the persisted 'token' and 'user' entries and moved the location to
\* '/login', and any other status has left storage and location as they were.
C1_UnauthorizedClearsSession ==
    [][\A i \in 1..Len(calls) :
          (calls[i].state = "pending" /\ Settled(calls'[i])) =>
             IF calls'[i].status = 401
             THEN /\ localStorage' = [token |-> Null, user |-> Null]
                  /\ location' = "/login"
             ELSE /\ localStorage' = localStorage
                  /\ location' = location]_vars

\* C2: every request carries 'Authorization: Bearer <token>' exactly when a
\* token was stored at the moment it was issued, with the value stored at that
\* moment, and carries no Authorization header otherwise.
C2_BearerIffTokenStored ==
    \A i \in 1..Len(calls) :
        calls[i].headers.Authorization =
            IF calls[i].tokenAtSend /= Null
            THEN Bearer(calls[i].tokenAtSend)
            ELSE Null

\* two requests of one run, one sent with the second token and one sent
\* without a session
C2_Witness ==
    \E i, j \in 1..Len(calls) :
        /\ calls[i].tokenAtSend = "t2"
        /\ calls[i].headers.Authorization = "Bearer t2"
        /\ calls[j].tokenAtSend = Null
        /\ calls[j].headers.Authorization = Null

\* C3: each facade call sends one request and is never re-issued, and a call
\* answered with a failure (401 included) is rejected with that error.
C3_NoRetryFailurePropagates ==
    \A i \in 1..Len(calls) :
        /\ calls[i].sent = 1
        /\ (Settled(calls[i]) /\ ~IsSuccess(calls[i].status)) =>
              /\ calls[i].state = "rejected"
              /\ calls[i].error = ToString(calls[i].status)

\* a call answered with 401 was rejected
C3_Witness ==
    \E i \in 1..Len(calls) :
        /\ calls[i].status = 401
        /\ calls[i].state = "rejected"
        /\ calls[i].error = "401"

-----------------------------------------------------------------------------
(* Properties of Home *)

\* C4, as stated: after a successful fetchMovies whose body has no page_info,
\* totalPages is ceiling(count / 12) when the body carries a count, and the
\* pagination controls are hidden when it carries none.
C4_CountOrHidden ==
    (last.op = "fetchMoviesOk" /\ ~last.data.hasPageInfo) =>
        IF last.data.count /= NoCount
        THEN home.totalPages = CeilDiv(last.data.count, PageSize)
        ELSE ~PaginationRendered(home)

\* C4, amended: after a successful fetchMovies whose body has no page_info,
\* totalPages is ceiling(count / 12) when the body carries a non-zero count
\* and a results list, and keeps its previous value otherwise; with no count
\* the controls are hidden when, in addition, the body has no next or
\* previous link and the totalPages kept is at most 1.
C4_CountWithResultsElseKept ==
    [][(last'.op = "fetchMoviesOk" /\ ~last'.data.hasPageInfo) =>
          LET d == last'.data
              derived == d.count /= NoCount /\ d.count /= 0 /\ d.hasResults
          IN /\ derived => home'.totalPages = CeilDiv(d.count, PageSize)
             /\ ~derived => home'.totalPages = home.totalPages
             /\ (d.count = NoCount /\ d.next = Null /\ d.previous = Null
                 /\ home.totalPages <= 1) => ~PaginationRendered(home')]_vars

\* a body with count 13 and no page_info gave two pages
C4_Witness ==
    /\ last.op = "fetchMoviesOk"
    /\ ~last.data.hasPageInfo
    /\ last.data.count = 13
    /\ home.totalPages = 2

C6_EmptySubmitClears ==
    [][(last'.op = "handleSubmit" /\ Trim(last'.text) = "") =>
          /\ home'.searchQuery = ""
          /\ home'.searchResults = List(<<>>)
          /\ issued' = issued]_vars

\* the browse state shown when no search is active
BrowseView(h) ==
    <<h.movies, h.currentPage, h.totalPages, h.hasNext, h.hasPrevious>>

SearchSteps ==
    {"handleSubmit", "handleClear", "handleSearchOk", "handleSearchFail"}

\* C7: while the search query is non-empty the displayed list is the search
\* result set and the pagination controls are not rendered; no step of a
\* search or of a clear changes movies, currentPage, totalPages, hasNext or
\* hasPrevious or issues a browse fetch, and after the clear the displayed
\* list is the browse list.
C7_SearchKeepsBrowseView ==
    [][/\ home'.searchQuery /= "" =>
             /\ DisplayMovies(home') = home'.searchResults
             /\ ~PaginationRendered(home')
       /\ last'.op \in SearchSteps =>
             /\ BrowseView(home') = BrowseView(home)
             /\ issued'.browse = issued.browse
       /\ last'.op = "handleClear" =>
             /\ home'.searchQuery = ""
             /\ DisplayMovies(home') = home'.movies]_vars

\* the search was cleared after a search had been issued, and the browse
\* list with its pagination controls is shown again
C7_Witness ==
    /\ last.op = "handleClear"
    /\ issued.search > 0
    /\ Length(home.movies) > 0
    /\ DisplayMovies(home) = home.movies
    /\ PaginationRendered(home)

-----------------------------------------------------------------------------
(* Properties of MovieDetails *)

Mutating == {f \in detFlight : f.kind \in MutatingKinds}

\* C8: a rating or watchlist handler called while isAuthenticated is false
\* navigates to '/login' and issues no call, and a mutating call is issued
\* only in a state where isAuthenticated is true.
C8_UnauthenticatedRedirects ==
    [][/\ (last'.op \in {"handleRating", "handleWatchlistToggle"}
           /\ ~auth.isAuthenticated) =>
             /\ location' = "/login"
             /\ detFlight' = detFlight
             /\ issued' = issued
       /\ issued'.mutate /= issued.mutate => auth.isAuthenticated]_vars

\* handleRating ran unauthenticated and the location is the login view
C8_Witness ==
    /\ last.op = "handleRating"
    /\ ~last.isAuth
    /\ last.outcome = "login"
    /\ location = "/login"

\* C9: at most one mutating call is outstanding; while one is outstanding
\* actionLoading is set and the controls accept no click; when it completes,
\* resolved or rejected, actionLoading is cleared.
C9_OneMutatingCallAtATime ==
    /\ Cardinality(Mutating) <= 1
    /\ Mutating /= {} =>
          /\ details.actionLoading
          /\ ~ControlsEnabled(details, auth.isAuthenticated)
    /\ last.op \in {"actionOk", "actionFail"} => ~details.actionLoading

\* a second mutating call is outstanding, started after the first one had
\* completed and re-enabled the controls
C9_Witness ==
    /\ issued.mutate = 2
    /\ Cardinality(Mutating) = 1
    /\ details.actionLoading

\* C10: a resolved rateMovie(movie.id, r) sets userRating to r; a resolved
\* toggle sets isInWatchlist to the negation of its value when the toggle
\* was started, the call being removeFromWatchlist exactly when that value
\* was true; a rejected call leaves userRating and isInWatchlist as they
\* were; none of them issues another call.
C10_OptimisticUpdate ==
    [][/\ \A f \in detFlight' \ detFlight :
             f.kind \in MutatingKinds =>
                /\ f.movieId = details.movie.id
                /\ f.kind /= "rateMovie" =>
                      (f.kind = "removeFromWatchlist" <=> details.isInWatchlist)
       /\ last'.op = "actionOk" =>
             /\ issued' = issued
             /\ detFlight' = detFlight \ {last'.call}
             /\ IF last'.call.kind = "rateMovie"
                THEN /\ details'.userRating = last'.call.rating
                     /\ details'.isInWatchlist = details.isInWatchlist
                ELSE /\ details'.isInWatchlist = ~last'.call.wasIn
                     /\ details'.userRating = details.userRating
       /\ last'.op = "actionFail" =>
             /\ issued' = issued
             /\ detFlight' = detFlight \ {last'.call}
             /\ details'.userRating = details.userRating
             /\ details'.isInWatchlist = details.isInWatchlist]_vars

\* a removeFromWatchlist resolved and the movie is no longer in the watchlist
C10_Witness ==
    /\ last.op = "actionOk"
    /\ last.call.kind = "removeFromWatchlist"
    /\ last.call.wasIn
    /\ ~details.isInWatchlist

-----------------------------------------------------------------------------
(* Properties of the fetches of the page controllers *)

\* the steps in which a page handles the failure of a call it awaited
FailureOps ==
    {"fetchMoviesFail", "handleSearchFail", "fetchMovieDetailsFail",
     "fetchPopularMoviesFail", "dashSearchFail"}

\* the continuation of fetchDashboardData ran after a call of it had failed
DataFailureHandled ==
    last.op = "fetchDashboardDataDone" /\ last.failed /= {}

\* a step that handles a failure issues no call
NoReissue ==
    [][(last'.op \in FailureOps \cup {"fetchDashboardDataDone", "settle"})
         => /\ issued' = issued
            /\ Cardinality(homeFlight') <= Cardinality(homeFlight)
            /\ Cardinality(detFlight') <= Cardinality(detFlight)
            /\ Cardinality(dashFlight') <= Cardinality(dashFlight)
            /\ slider'.fetching => slider.fetching]_vars

\* the failure of a call that drives a loading flag leaves an error message
\* and the flag cleared; the Dashboard search drives no flag
FailureShown ==
    /\ last.op = "fetchMoviesFail" => home.error /= "" /\ ~home.loading
    /\ last.op = "handleSearchFail" => home.error /= "" /\ ~home.searching
    /\ last.op = "fetchMovieDetailsFail" =>
          details.error /= "" /\ ~details.loading
    /\ last.op = "fetchPopularMoviesFail" =>
          slider.error /= "" /\ ~slider.loading
    /\ last.op = "dashSearchFail" => dashboard.error /= ""

-----------------------------------------------------------------------------
(* Properties of Dashboard *)

\* the movies the active tab selects: the recommendations (nested or not),
\* the movie of each watchlist entry, or the search results
SelectedByTab(d) ==
    CASE d.activeTab = "recommendations" ->
           IF d.recommendations.hasRecs
           THEN d.recommendations.recommendations
           ELSE d.recommendations.items
      [] d.activeTab = "watchlist" ->
           [i \in 1..Len(d.watchlist.items) |->
              IF d.watchlist.items[i].hasMovie
              THEN Movie(d.watchlist.items[i].movie)
              ELSE d.watchlist.items[i]]
      [] d.activeTab = "search" -> d.searchResults.items

\* C12: in Dashboard, switching the active tab to a tab other than 'search'
\* leaves the search query empty and the search results the empty list, and
\* the movies rendered are always those the active tab selects
\* (recommendations, watchlist or search results).
C12_TabChangeClearsSearch ==
    /\ (last.op = "handleTabChange" /\ last.tab /= "search") =>
          /\ dashboard.activeTab = last.tab
          /\ dashboard.searchQuery = ""
          /\ dashboard.searchResults = DashList(<<>>)
    /\ (DashboardMounted /\ auth.isAuthenticated /\ ~dashboard.loading) =>
          /\ DashboardRendered(dashboard, TRUE) = "movies"
          /\ dashboard.activeTab \in Tabs
          /\ GetCurrentMovies(dashboard).value.items
                = SelectedByTab(dashboard)

\* the watchlist tab was chosen after a search had completed, and its
\* movies are rendered
C12_Witness ==
    /\ last.op = "handleTabChange" /\ last.tab = "watchlist"
    /\ issued.dsearch > 0 /\ dashFlight = {}
    /\ DashboardRendered(dashboard, auth.isAuthenticated) = "movies"
    /\ Len(GetCurrentMovies(dashboard).value.items) > 0
    /\ dashboard.searchQuery = ""

\* the movies a response contains, in response order: the elements of the
\* bare array, of 'results' or of 'recommendations', a watchlist entry
\* standing for the movie nested in it
ContainedMovies(body) ==
    LET elements == IF body.isArray THEN body.items
                    ELSE IF body.hasResults THEN body.results
                    ELSE body.recommendations
    IN  [i \in 1..Len(elements) |->
           IF elements[i].hasMovie THEN Movie(elements[i].movie)
           ELSE elements[i]]

\* C13: whatever the envelope of the response (a bare array, an object with
\* a 'results' array, recommendations nested under 'recommendations',
\* watchlist entries nesting a 'movie'), the page controllers extract the
\* movies it contains, in response order; an entry without a nested movie
\* is the movie itself.
C13_EnvelopeNormalized ==
    /\ (last.op = "fetchMoviesOk"
          /\ (last.data.isArray \/ last.data.hasResults)) =>
          home.movies = List(IF last.data.isArray THEN last.data.items
                             ELSE last.data.results)
    /\ (last.op = "fetchDashboardDataDone"
          /\ ~last.bodies.recs.isNull /\ ~last.bodies.watch.isNull) =>
          /\ GetCurrentMovies([dashboard EXCEPT
                  !.activeTab = "recommendations"]).value.items
                = ContainedMovies(last.bodies.recs)
          /\ GetCurrentMovies([dashboard EXCEPT
                  !.activeTab = "watchlist"]).value.items
                = ContainedMovies(last.bodies.watch)
    /\ last.op = "dashSearchOk" =>
          dashboard.searchResults.items = ContainedMovies(last.data)

\* nested recommendations and watchlist entries nesting their movie were
\* stored, and the recommendations tab shows the nested movies
C13_Witness ==
    /\ last.op = "fetchDashboardDataDone"
    /\ last.bodies.recs.hasRecs
    /\ last.bodies.watch.hasResults
    /\ \E i \in 1..Len(last.bodies.watch.results) :
          last.bodies.watch.results[i].hasMovie
    /\ dashboard.activeTab = "recommendations"
    /\ GetCurrentMovies(dashboard).value.items = <<Movie(3), Movie(1)>>

\* C14: whenever isAuthenticated is false the mounted Dashboard renders only
\* the redirect to '/login' (no search bar, no tab), and a recommendations
\* or watchlist call is issued only by a step taken with isAuthenticated
\* true.
C14_UnauthenticatedOnlyRedirects ==
    /\ []((DashboardMounted /\ ~auth.isAuthenticated) =>
            /\ DashboardRendered(dashboard, auth.isAuthenticated)
                  = "redirect"
            /\ ~DashControlsRendered)
    /\ [][(issued'.recs /= issued.recs \/ issued'.watch /= issued.watch)
            => auth.isAuthenticated /\ auth'.isAuthenticated]_vars
    /\ [][(DashboardMounted /\ ~auth.isAuthenticated)
            => /\ issued' = issued
               /\ last'.op = "redirect" => location' = "/login"]_vars

\* the Dashboard was mounted without a session: it renders the redirect
\* and has issued nothing
C14_Witness ==
    /\ last.op = "dashMount" /\ ~last.isAuth
    /\ DashboardMounted /\ ~auth.isAuthenticated
    /\ DashboardRendered(dashboard, auth.isAuthenticated) = "redirect"
    /\ dashFlight = {}
    /\ issued.recs = 0 /\ issued.watch = 0

-----------------------------------------------------------------------------
(* Properties of the display helpers *)

\* text shows the value x (in hundredths) with one decimal digit: it is
\* the decimal numeral of the tenth nearest to x
IsOneDecimalOf(text, x) ==
    \E t \in 0..100 :
        /\ text = ToString(t \div 10) \o "." \o ToString(t % 10)
        /\ 10 * t - x <= 5
        /\ x - 10 * t <= 5

\* a MovieCard or MovieDetails has rendered the rating of the movie
RatingRendered == display.view \in {"MovieCard", "MovieDetails"}

\* C15 as stated: the rating text is "N/A" when the vote average is null or
\* absent, and otherwise the value with one decimal digit.
C15_RatingTextOrNA ==
    RatingRendered =>
        IF display.movie.vote_average = NoRating
        THEN display.rating = "N/A"
        ELSE IsOneDecimalOf(display.rating, display.movie.vote_average)

\* C15 amended: the rating text is "N/A" when the vote average is null,
\* absent or 0, and otherwise the value with one decimal digit (8.4 gives
\* "8.4").
C15_RatingTextOrNAForZero ==
    RatingRendered =>
        IF display.movie.vote_average \in {NoRating, 0}
        THEN display.rating = "N/A"
        ELSE IsOneDecimalOf(display.rating, display.movie.vote_average)

\* a card shows "8.4" for 8.4
C15_Witness ==
    /\ display.view = "MovieCard"
    /\ display.movie.vote_average = 840
    /\ display.rating = "8.4"

\* the release date is a string that new Date() cannot read as a date
FailsToParse(date) ==
    \/ date.text /= "iso"
    \/ date.month \notin 1..12
    \/ date.day \notin 1..31

\* C16: for every release date that is missing or fails to parse, the year
\* text of the card and of the slider is "Unknown Year"; for a date that
\* parses it is the parsed year.
C16_UnknownYearOrParsedYear ==
    display.view \in {"MovieCard", "MovieSlider"} =>
        IF FailsToParse(display.movie.release_date)
        THEN display.year = "Unknown Year"
        ELSE display.year = ToString(display.movie.release_date.year)

\* C17: a movie card of a record with no poster_url shows the placeholder
\* glyph and renders no image element; of a record with a poster_url it
\* renders the image with the placeholder hidden, and once the image has
\* failed to load the image is hidden and the placeholder visible.
C17_PosterOrPlaceholder ==
    display.view = "MovieCard" =>
        IF ~TruthyStr(display.movie.poster_url)
        THEN display.poster = [img |-> "absent", placeholder |-> "flex"]
        ELSE IF last.op = "onError"
        THEN display.poster = [img |-> "none", placeholder |-> "flex"]
        ELSE display.poster = [img |-> "shown", placeholder |-> "none"]

\* the poster of a card failed to load: the placeholder has replaced it
C17_Witness ==
    /\ display.view = "MovieCard"
    /\ display.movie.poster_url = "p.jpg"
    /\ last.op = "onError"
    /\ display.poster.img = "none"
    /\ display.poster.placeholder = "flex"

-----------------------------------------------------------------------------
(* Properties of the base URL *)

\* the environment value is set and not blank
NonBlank(env) == env.set /\ \E i \in 1..Len(env.text) : env.text[i] /= " "

\* C18: the baseURL given to the HTTP client is the environment value when
\* that is set and not blank, else a default address, and always ends with
\* '/'; ensureTrailingSlash appends a slash only when one is missing, and
\* applying it twice equals applying it once.
C18_BaseUrlEndsWithSlash ==
    config.created =>
        /\ EndsWithSlash(config.baseURL)
        /\ \E base \in IF NonBlank(config.env)
                        THEN {TrimString(config.env.text)}
                        ELSE {DevDefault, ProdDefault} :
              /\ config.baseURL = IF EndsWithSlash(base) THEN base
                                  ELSE base \o <<"/">>
              /\ EnsureTrailingSlash(base) = config.baseURL
              /\ EnsureTrailingSlash(EnsureTrailingSlash(base))
                    = EnsureTrailingSlash(base)

-----------------------------------------------------------------------------
(* Properties of overlapping Home requests *)

HomeSettleOps ==
    {"fetchMoviesOk", "fetchMoviesFail", "handleSearchOk", "handleSearchFail"}

\* C19: Home cancels no request in flight: a request leaves homeFlight only
\* by its own response, and whichever response resolves is displayed
\* (movies, currentPage and pagination flags, or searchResults), even when
\* requests issued after it have already completed.
C19_LastResponseWins ==
    /\ [][\A f \in homeFlight :
            f \in homeFlight'
            \/ (last'.op \in HomeSettleOps /\ homeFlight' = homeFlight \ {f})]_vars
    /\ [](last.op = "fetchMoviesOk" =>
            /\ home.movies = ResultsOrData(last.data)
            /\ home.currentPage = last.page
            /\ last.data.hasPageInfo =>
                  /\ home.hasNext = last.data.page_info.has_next
                  /\ home.hasPrevious = last.data.page_info.has_previous)
    /\ [](last.op = "handleSearchOk" =>
            home.searchResults = ResultsOrData(last.data))

\* the response of an earlier search resolved after that of the search
\* that superseded it: the results on display are those of the earlier
\* query, while searchQuery is the later one
C19_Witness ==
    /\ last.op = "handleSearchOk"
    /\ \A f \in homeFlight : f.kind /= "search"
    /\ TruthyStr(home.searchQuery) /\ home.searchQuery /= last.query
    /\ home.searchResults = List(<<Hit(last.query)>>)

-----------------------------------------------------------------------------
(* Properties of the slider's timer *)

\* C20: an auto-advance timer exists only for a non-empty movie list, of
\* the length it was started for; it can tick whatever network request is
\* outstanding; at most one timer is active; once the slider is torn down
\* its timer is cleared, and only a timer that is active and belongs to the
\* mounted slider ticks.
C20_OneTimerClearedOnTeardown ==
    /\ [](\A t \in slider.timers :
            /\ t.length > 0
            /\ t.length = Length(slider.movies)
            /\ ENABLED Tick(t))
    /\ [](Cardinality(slider.timers) <= 1)
    /\ [](~slider.mounted => slider.timers = {})
    /\ [][last'.op = "tick" =>
            /\ slider.mounted
            /\ \E t \in slider.timers : t.id = last'.handle]_vars
    /\ [][(last'.op = "sliderUnmount"
             \/ Length(slider'.movies) /= Length(slider.movies)) =>
            slider'.timers \cap slider.timers = {}]_vars

\* the timer of the second mount ticks while a request of the page is
\* outstanding; the timer of the first mount was cleared with it
C20_Witness ==
    /\ last.op = "tick"
    /\ last.outstanding
    /\ last.handle = 2
    /\ slider.timers = {[id |-> 2, length |-> Length(slider.movies)]}
    /\ slider.currentIndex > 0
-----------------------------------------------------------------------------
(* Properties of the slider's index *)

\* C21: while the slider shows a non-empty list of n movies, currentIndex
\* is one of 0..n-1 whatever arrows, dots and timer ticks came before; the
\* next arrow and the timer step from n-1 to 0 and otherwise up by one, the
\* previous arrow steps from 0 to n-1 and otherwise down by one, a dot sets
\* the index it names, and the previous arrow undoes the next arrow.
C21_IndexInRange ==
    /\ [](SliderRendered(slider) = "slides" =>
            /\ slider.currentIndex \in 0..(Length(slider.movies) - 1)
            /\ \A i \in 0..(Length(slider.movies) - 1) :
                 PrevIndex(NextIndex(i, Length(slider.movies)),
                           Length(slider.movies)) = i)
    /\ [][(last'.op = "nextSlide" \/ (last'.op = "tick" /\ last'.mounted)) =>
            slider'.currentIndex =
              IF slider.currentIndex = Length(slider.movies) - 1
              THEN 0 ELSE slider.currentIndex + 1]_vars
    /\ [][last'.op = "prevSlide" =>
            slider'.currentIndex =
              IF slider.currentIndex = 0
              THEN Length(slider.movies) - 1
              ELSE slider.currentIndex - 1]_vars
    /\ [][last'.op = "goToSlide" =>
            slider'.currentIndex = last'.index]_vars

\* the previous arrow has just wrapped from the first slide to the last of
\* three
C21_Witness ==
    /\ last.op = "prevSlide"
    /\ Length(slider.movies) = 3
    /\ slider.currentIndex = 2
    /\ SliderRendered(slider) = "slides"
-----------------------------------------------------------------------------
(* Properties of Home's page changes *)

\* C22: a page-change handler issues a browse fetch only for a page between
\* 1 and totalPages, the Previous handler only while hasPrevious holds and
\* the Next handler only while hasNext holds; currentPage is at least 1 in
\* every reachable state.
C22_PageChangeWithinBounds ==
    /\ [](home.currentPage >= 1)
    /\ [](\A f \in homeFlight : f.kind = "browse" => f.page >= 1)
    /\ [][(last'.op \in {"handlePreviousPage", "handleNextPage"}
             /\ issued'.browse /= issued.browse) =>
            /\ last'.page >= 1
            /\ last'.page <= home.totalPages
            /\ last'.op = "handlePreviousPage" => home.hasPrevious
            /\ last'.op = "handleNextPage" => home.hasNext
            /\ \E f \in homeFlight' \ homeFlight :
                 f.kind = "browse" /\ f.page = last'.page]_vars

\* the Previous handler has just issued the fetch of page 1 from page 2
C22_Witness ==
    /\ last.op = "handlePreviousPage"
    /\ last.page = 1
    /\ home.currentPage = 2
    /\ home.hasPrevious
    /\ \E f \in homeFlight :
         f.kind = "browse" /\ f.id = HomeCalls /\ f.page = 1

\* C23: activating the enabled Next control issues a browse fetch for
\* currentPage + 1, and activating the enabled Previous control issues one
\* for currentPage - 1, whichever pagination shape set hasNext and
\* hasPrevious.
C23_EnabledControlFetches ==
    [][(last'.op = "handleNextPage" \/ last'.op = "handlePreviousPage") =>
        /\ last'.page = home.currentPage
                          + (IF last'.op = "handleNextPage" THEN 1 ELSE -1)
        /\ issued'.browse = issued.browse + 1
        /\ \E f \in homeFlight' \ homeFlight :
             f.kind = "browse" /\ f.page = last'.page]_vars

\* C24: the step that handles a failed browse fetch changes none of movies,
\* currentPage, totalPages, hasNext and hasPrevious, and sets the error;
\* these five change only in the step of a browse fetch that succeeded, so a
\* failed fetch finds and leaves them as they were when it was issued unless
\* another fetch succeeded meanwhile; currentPage changes only to the page
\* of the fetch that has just succeeded.
C24_FailedFetchKeepsBrowseView ==
    [][/\ last'.op = "fetchMoviesFail" =>
             /\ BrowseView(home') = BrowseView(home)
             /\ home'.error = "Failed to fetch movies"
             /\ ~home'.loading
       /\ BrowseView(home') /= BrowseView(home) => last'.op = "fetchMoviesOk"
       /\ home'.currentPage /= home.currentPage =>
             /\ last'.op = "fetchMoviesOk"
             /\ home'.currentPage = last'.page]_vars

\* the fetch of page 2 has failed: page 1 and its movies are still shown,
\* with the error
C24_Witness ==
    /\ last.op = "fetchMoviesFail"
    /\ last.page = 2
    /\ home.currentPage = 1
    /\ home.movies = List(<<1>>)
    /\ home.hasNext
    /\ home.error = "Failed to fetch movies"

-----------------------------------------------------------------------------
(* Properties of Home's search results *)

\* C25: whenever search results are displayed under a non-empty searchQuery
\* and no search is in flight, the results are those of a response to that
\* query.
C25_ResultsBelongToQuery ==
    (/\ home.searchQuery /= ""
     /\ Length(home.searchResults) > 0
     /\ \A f \in homeFlight : f.kind /= "search")
    => \E data \in SearchBodies(home.searchQuery) :
         home.searchResults = ResultsOrData(data)

-----------------------------------------------------------------------------
(* Properties of Dashboard's search tab *)

\* C26: in every reachable state of the mounted Dashboard, if the active tab
\* is 'search' then the search query is non-empty.
C26_SearchTabHasQuery ==
    (DashboardMounted /\ dashboard.activeTab = "search")
    => dashboard.searchQuery /= ""

-----------------------------------------------------------------------------
(* Properties of Dashboard's data calls *)

\* the movies the Dashboard shows on a tab
ShownOnTab(d, tab) == GetCurrentMovies([d EXCEPT !.activeTab = tab])

\* C27: the recommendations call and the watchlist call are issued in one
\* step and are outstanding together; a rejection never reaches the catch
\* block of fetchDashboardData; the first of the two to settle changes
\* nothing; when the second has settled loading is false, the list of a
\* failed call is empty, and the list of the call that succeeded (with a
\* body to read) is stored and shown on its tab with the error message left
\* as it was.
C27_FailedCallBecomesEmptyList ==
    /\ [](issued.recs = issued.watch)
    /\ [](\A f \in dashFlight : f.kind \in {"recs", "watch"} =>
            \E g \in dashFlight :
               g.kind \in {"recs", "watch"} \ {f.kind} /\ g.id = f.id)
    /\ [](last.op /= "fetchDashboardDataFail")
    /\ [][last'.op = "settle" =>
            dashboard' = dashboard /\ dashboard.loading]_vars
    /\ [][last'.op = "fetchDashboardDataDone" =>
            /\ ~dashboard'.loading
            /\ \A k \in last'.failed : last'.bodies[k] = ArrayBody(<<>>)
            /\ (last'.failed = {"recs"} /\ ~last'.bodies.watch.isNull) =>
                  /\ dashboard'.recommendations = DashList(<<>>)
                  /\ dashboard'.watchlist
                       = ResultsOrDataOrEmpty(last'.bodies.watch)
                  /\ ShownOnTab(dashboard', "watchlist")
                       = [ok |-> TRUE,
                          value |-> DashList(
                                      ContainedMovies(last'.bodies.watch))]
                  /\ dashboard'.error = dashboard.error
            /\ (last'.failed = {"watch"} /\ ~last'.bodies.recs.isNull) =>
                  /\ dashboard'.watchlist = DashList(<<>>)
                  /\ dashboard'.recommendations
                       = ResultsOrDataOrEmpty(last'.bodies.recs)
                  /\ ShownOnTab(dashboard', "recommendations").value.items
                       = ContainedMovies(last'.bodies.recs)
                  /\ dashboard'.error = dashboard.error]_vars

\* the recommendations call failed and the watchlist call answered: the
\* watchlist is stored, the recommendations are empty, no error is shown
C27_Witness ==
    /\ last.op = "fetchDashboardDataDone"
    /\ last.failed = {"recs"}
    /\ dashboard.recommendations = DashList(<<>>)
    /\ Len(ShownOnTab(dashboard, "watchlist").value.items) = 2
    /\ dashboard.error = ""
    /\ ~dashboard.loading

-----------------------------------------------------------------------------
(* Properties of Login *)

\* C28: a submit with an empty username or an empty password sets the local
\* error 'Please fill in all fields', which is then the error displayed,
\* and issues no login call; the route changes to '/dashboard' only in the
\* step in which a login call reported success or in the effect's step with
\* isAuthenticated true; editing a field clears the local error.
C28_EmptySubmitBlockedNavigateOnSuccess ==
    /\ [][(last'.op = "loginSubmit"
             /\ (last'.formData.username = ""
                   \/ last'.formData.password = "")) =>
            /\ login'.localError = "Please fill in all fields"
            /\ DisplayError(login') = "Please fill in all fields"
            /\ login'.issued = login.issued
            /\ login'.flights = login.flights
            /\ ~login'.loading]_vars
    /\ [][(location' = "/dashboard" /\ location /= "/dashboard") =>
            \/ last'.op = "loginSettled" /\ last'.success
            \/ last'.op = "loginEffect" /\ auth.isAuthenticated]_vars
    /\ [][last'.op = "loginChange" => login'.localError = ""]_vars

\* a submit with a username and no password has just set the local error;
\* no login call was issued
C28_Witness ==
    /\ last.op = "loginSubmit"
    /\ last.formData.username /= ""
    /\ last.formData.password = ""
    /\ login.localError = "Please fill in all fields"
    /\ login.issued = 0
    /\ location = "/login"

=============================================================================
